---------------------------- MODULE Spec2Model ----------------------------
(***************************************************************************)
(* Model of the hourglass geometry engine of bevy_hourglass                *)
(* (src/src/curves.rs): curve sampling, the outline builder and the sand   *)
(* outline generator.                                                      *)
(*                                                                         *)
(* Numbers.  An f32 length or coordinate is modelled as an integer number  *)
(* of ticks, one tick being 1/Scale of a unit; factors (curvature, width   *)
(* factor, mound factor) are modelled the same way.  fill_percent is the   *)
(* fraction k/FillDen.  Angles are integers in steps of 3 degrees          *)
(* (HalfTurn steps make PI).  Every expression of the source is evaluated  *)
(* in the order of the source and rounded to the nearest tick by RDiv;     *)
(* sin and cos come from a table of SinScale-ths.                          *)
(***************************************************************************)
EXTENDS Integers, Sequences, FiniteSets, TLC

VARIABLES
    pc,            \* position of the caller: "builder", "outline", "sand", "curve"
    builder,       \* HourglassShapeBuilder {total_height, bulb_style, neck_style}
    outline_wo,    \* wall_offset the outline was generated with
    outline,       \* result of generate_outline_with_wall_offset
    sand_args,     \* arguments of the last generate_sand_outline call
    filtered,      \* filtered_points of that call (the clipped polygon)
    sand,          \* the value returned by that call
    curve,         \* the curve of the last generate_points call
    curve_res,     \* its resolution argument
    curve_pts,     \* the value it returned
    mesh,          \* the entities of a mesh hourglass and their sand state
    hourglass,     \* the Hourglass component
    before,        \* the Hourglass component before the last call
    call,          \* the last call on the component: op, delta, ret
    events,        \* the events the last update_hourglasses run wrote
    history,       \* elapsed time, flips started, flip events written
    component      \* the entity of the component-based flip protocol

timer_vars == <<hourglass, before, call, events, history, component>>

vars == <<pc, builder, outline_wo, outline, sand_args, filtered, sand,
          curve, curve_res, curve_pts, mesh, timer_vars>>

----------------------------------------------------------------------------
(* Fixed-point arithmetic *)

Scale == 100

SinScale == 1000

Abs(a) == IF a < 0 THEN -a ELSE a

Max(a, b) == IF a >= b THEN a ELSE b

Min(a, b) == IF a <= b THEN a ELSE b

\* a / b rounded to the nearest integer, halves away from zero
RDiv(a, b) ==
    LET n == IF b < 0 THEN -a ELSE a
        d == Abs(b)
    IN  IF n >= 0 THEN (2 * n + d) \div (2 * d)
                  ELSE -((2 * (-n) + d) \div (2 * d))

\* sin(k * 3 degrees) * SinScale for k in 0..HalfTurn
SinTab ==
    <<0, 52, 105, 156, 208, 259, 309, 358, 407, 454, 500, 545, 588, 629, 669,
      707, 743, 777, 809, 839, 866, 891, 914, 934, 951, 966, 978, 988, 995,
      999, 1000, 999, 995, 988, 978, 966, 951, 934, 914, 891, 866, 839, 809,
      777, 743, 707, 669, 629, 588, 545, 500, 454, 407, 358, 309, 259, 208,
      156, 105, 52, 0>>

\* PI in 3-degree steps
HalfTurn == Len(SinTab) - 1

\* PI / 2 in 3-degree steps
QuarterTurn == HalfTurn \div 2

\* f32::sin of an angle given in 3-degree steps
Sin(a) ==
    LET m == a % (2 * HalfTurn)
    IN  IF m <= HalfTurn THEN SinTab[m + 1] ELSE -SinTab[m - HalfTurn + 1]

\* f32::cos of an angle given in 3-degree steps
Cos(a) == Sin(a + QuarterTurn)

\* start * (1 - t) + end * t for t = i / n
Lerp(s, e, i, n) == RDiv(s * (n - i) + e * i, n)

----------------------------------------------------------------------------
(* Curve generators *)

CircularArc(center, radius, start_angle, end_angle, clockwise) ==
    [kind |-> "CircularArc", center |-> center, radius |-> radius,
     start_angle |-> start_angle, end_angle |-> end_angle,
     clockwise |-> clockwise,
     start |-> <<0, 0>>, end |-> <<0, 0>>, curvature |-> 0,
     curve_direction |-> "None"]

\* SmoothTransition::new clamps the curvature at 0
SmoothTransition(start, end, curvature, curve_direction) ==
    [kind |-> "SmoothTransition", center |-> <<0, 0>>, radius |-> 0,
     start_angle |-> 0, end_angle |-> 0, clockwise |-> FALSE,
     start |-> start, end |-> end, curvature |-> Max(curvature, 0),
     curve_direction |-> curve_direction]

straight_line(start, end) == SmoothTransition(start, end, 0, "None")

ArcPoint(c, angle) ==
    <<c.center[1] + RDiv(c.radius * Cos(angle), SinScale),
      c.center[2] + RDiv(c.radius * Sin(angle), SinScale)>>

start_point(c) ==
    IF c.kind = "CircularArc" THEN ArcPoint(c, c.start_angle) ELSE c.start

end_point(c) ==
    IF c.kind = "CircularArc" THEN ArcPoint(c, c.end_angle) ELSE c.end

angle_diff(c) ==
    IF c.clockwise
    THEN IF c.end_angle <= c.start_angle
         THEN c.end_angle + 2 * HalfTurn - c.start_angle
         ELSE c.end_angle - c.start_angle
    ELSE IF c.end_angle >= c.start_angle
         THEN c.end_angle - c.start_angle
         ELSE c.end_angle + 2 * HalfTurn - c.start_angle

\* the angle of sample i of resolution n (i * angle_diff is a multiple of n
\* for the angles and resolutions drawn below)
ArcAngle(c, i, n) ==
    IF c.clockwise THEN c.start_angle - (i * angle_diff(c)) \div n
                   ELSE c.start_angle + (i * angle_diff(c)) \div n

\* sample i of a SmoothTransition at resolution n >= 1
TransitionPoint(c, i, n) ==
    LET base_x == Lerp(c.start[1], c.end[1], i, n)
        base_y == Lerp(c.start[2], c.end[2], i, n)
        sinv   == SinTab[(HalfTurn * i) \div n + 1]
        sign   == CASE c.curve_direction = "None"    -> 0
                    [] c.curve_direction = "Inward"  -> -1
                    [] c.curve_direction = "Outward" -> 1
        dx     == c.end[1] - c.start[1]
        dy     == c.end[2] - c.start[2]
        \* perp * curve_offset * length * 0.1, the length cancelling
        off(d) == RDiv(RDiv(d * sinv, SinScale) * sign * c.curvature,
                       Scale * 10)
    IN  IF c.curvature = 0 THEN <<base_x, base_y>>
        ELSE IF dx * dx + dy * dy > 0
             THEN <<base_x + off(-dy), base_y + off(dx)>>
             ELSE <<base_x, base_y>>

generate_points(c, resolution) ==
    IF resolution = 0 THEN <<start_point(c), end_point(c)>>
    ELSE IF c.kind = "CircularArc"
         THEN [k \in 1..(resolution + 1) |->
                   ArcPoint(c, ArcAngle(c, k - 1, resolution))]
         ELSE [k \in 1..(resolution + 1) |->
                   TransitionPoint(c, k - 1, resolution)]

----------------------------------------------------------------------------
(* Bulb and neck styles *)

BulbCircular(curvature, width_factor, curve_resolution) ==
    [kind |-> "Circular", curvature |-> curvature,
     width_factor |-> width_factor, curve_resolution |-> curve_resolution]

BulbStraight(width_factor) ==
    [kind |-> "Straight", curvature |-> 0, width_factor |-> width_factor,
     curve_resolution |-> 0]

NeckStraight(w, h) ==
    [kind |-> "Straight", curvature |-> 0, width |-> w, height |-> h,
     curve_resolution |-> 0]

NeckCurved(curvature, w, h, curve_resolution) ==
    [kind |-> "Curved", curvature |-> curvature, width |-> w, height |-> h,
     curve_resolution |-> curve_resolution]

bulb_curve_resolution(s) ==
    IF s.kind = "Circular" THEN s.curve_resolution ELSE 2

neck_curve_resolution(s) ==
    IF s.kind = "Straight" THEN 2 ELSE s.curve_resolution

MinNeckWidth == 3 * Scale

width(s) == Max(s.width, MinNeckWidth)

minimum_gap == 2 * Scale

width_with_wall_offset(s, wall_offset) ==
    Max(width(s), 2 * wall_offset + minimum_gap)

BulbStyleDefault == BulbCircular(Scale, (3 * Scale) \div 4, 20)

NeckStyleDefault == NeckCurved(Scale \div 5, 12 * Scale, 8 * Scale, 5)


----------------------------------------------------------------------------
(* HourglassShapeBuilder *)

create_bulb_curve(b, start, end, section) ==
    IF b.bulb_style.kind = "Circular"
    THEN SmoothTransition(start, end, b.bulb_style.curvature, "Outward")
    ELSE straight_line(start, end)

create_neck_curve(b, start, end, section) ==
    IF b.neck_style.kind = "Straight"
    THEN straight_line(start, end)
    ELSE SmoothTransition(start, end, b.neck_style.curvature, "Inward")

\* the sampled part kept whole, its first point included
DropFirst_kept(pts) == pts

\* Vec::remove(0) guarded by !is_empty()
DropFirst(pts) == IF pts # <<>> THEN Tail(pts) ELSE pts

bulb_height(b) == RDiv(b.total_height - b.neck_style.height, 2)

bulb_width(b) == RDiv(bulb_height(b) * b.bulb_style.width_factor, Scale)

neck_width_used(b, wall_offset) ==
    IF wall_offset > 0 THEN width_with_wall_offset(b.neck_style, wall_offset)
                       ELSE width(b.neck_style)

\* the seven parts of the outline, in the order the builder emits them, for
\* the bulb corner (bw, half_height) and neck corner (neck_half_width,
\* neck_half_height) of the right-hand side
OutlineParts(b, bw, half_height, neck_half_width, neck_half_height) ==
    LET bres == bulb_curve_resolution(b.bulb_style)
        nres == neck_curve_resolution(b.neck_style)
        bottom_bulb_left ==
            generate_points(create_bulb_curve(b, <<-bw, -half_height>>,
                <<-neck_half_width, -neck_half_height>>, "BottomLeft"), bres)
        left_neck ==
            generate_points(create_neck_curve(b,
                <<-neck_half_width, -neck_half_height>>,
                <<-neck_half_width, neck_half_height>>, "Left"), nres)
        top_bulb_left ==
            generate_points(create_bulb_curve(b,
                <<-neck_half_width, neck_half_height>>,
                <<-bw, half_height>>, "TopLeft"), bres)
        top_bulb_right ==
            generate_points(create_bulb_curve(b, <<bw, half_height>>,
                <<neck_half_width, neck_half_height>>, "TopRight"), bres)
        right_neck ==
            generate_points(create_neck_curve(b,
                <<neck_half_width, neck_half_height>>,
                <<neck_half_width, -neck_half_height>>, "Right"), nres)
        bottom_bulb_right ==
            generate_points(create_bulb_curve(b,
                <<neck_half_width, -neck_half_height>>,
                <<bw, -half_height>>, "BottomRight"), bres)
    IN  bottom_bulb_left \o DropFirst(left_neck) \o DropFirst(top_bulb_left)
        \o << <<bw, half_height>> >>
        \o DropFirst(top_bulb_right) \o DropFirst(right_neck)
        \o DropFirst(bottom_bulb_right)

\* the builder with the sign of every x flipped: the parts start at the
\* bottom right and run up the right-hand side
generate_outline_mirrored(b, wall_offset) ==
    OutlineParts(b, -bulb_width(b), RDiv(b.total_height, 2),
                 -RDiv(neck_width_used(b, wall_offset), 2),
                 RDiv(b.neck_style.height, 2))

generate_outline_with_wall_offset(b, wall_offset) ==
    OutlineParts(b, bulb_width(b), RDiv(b.total_height, 2),
                 RDiv(neck_width_used(b, wall_offset), 2),
                 RDiv(b.neck_style.height, 2))

generate_outline(b) == generate_outline_with_wall_offset(b, 0)

HourglassShapeBuilder_new ==
    [total_height |-> 200 * Scale, bulb_style |-> BulbStyleDefault,
     neck_style |-> NeckStyleDefault]

----------------------------------------------------------------------------
(* Sand outline generator *)

\* denominator of the fill fractions: fill_percent = k / FillDen, k in 0..FillDen
FillDen == 4

center_y == 0

\* the inclusion test with the fill line itself left out
Included_strict(p, bulb, fill_line) ==
    IF bulb = "Top" THEN p[2] >= center_y /\ p[2] < fill_line
                    ELSE p[2] <= center_y /\ p[2] < fill_line

\* the inclusion test of the flat clip
Included(p, bulb, fill_line) ==
    IF bulb = "Top" THEN p[2] >= center_y /\ p[2] <= fill_line
                    ELSE p[2] <= center_y /\ p[2] <= fill_line

\* Option<Point2D>: <<>> is None, <<p>> is Some(p)
calculate_line_intersection(p1, p2, y_line) ==
    IF p1[2] = p2[2] THEN <<>>
    ELSE IF y_line < Min(p1[2], p2[2]) \/ y_line > Max(p1[2], p2[2])
         THEN <<>>
         ELSE << <<p1[1] + RDiv((y_line - p1[2]) * (p2[1] - p1[1]),
                                p2[2] - p1[2]),
                   y_line>> >>

Contains(pts, p) == \E k \in 1..Len(pts) : pts[k] = p

\* insertion of p into a sequence sorted by x, after the elements of equal x
InsertByX(sorted, p) ==
    LET n == Cardinality({k \in 1..Len(sorted) : sorted[k][1] <= p[1]})
    IN  SubSeq(sorted, 1, n) \o <<p>> \o SubSeq(sorted, n + 1, Len(sorted))

RECURSIVE SortByX(_)
\* the stable sort_by on the x coordinate
SortByX(pts) ==
    IF pts = <<>> THEN <<>>
    ELSE InsertByX(SortByX(SubSeq(pts, 1, Len(pts) - 1)), pts[Len(pts)])

Reverse(pts) == [k \in 1..Len(pts) |-> pts[Len(pts) + 1 - k]]

RECURSIVE PushMissing(_, _)
\* push every point of pts that the result does not contain yet
PushMissing(result, pts) ==
    IF pts = <<>> THEN result
    ELSE PushMissing(IF Contains(result, Head(pts)) THEN result
                     ELSE Append(result, Head(pts)), Tail(pts))

RECURSIVE ConcatRange(_, _, _)
\* parts[lo] \o ... \o parts[hi]
ConcatRange(parts, lo, hi) ==
    IF lo > hi THEN <<>>
    ELSE IF lo = hi THEN parts[lo]
    ELSE ConcatRange(parts, lo, (lo + hi) \div 2)
         \o ConcatRange(parts, (lo + hi) \div 2 + 1, hi)

\* what iteration i of the loop over the outline edges of the flat clip
\* pushes to result_points and to fill_line_intersections
FlatStep(hourglass_outline, fill_line, bulb, i) ==
    LET n == Len(hourglass_outline)
        current_point == hourglass_outline[i]
        next_point    == hourglass_outline[(i % n) + 1]
        current_included == Included(current_point, bulb, fill_line)
        next_included    == Included(next_point, bulb, fill_line)
        res1 == IF current_included THEN <<current_point>> ELSE <<>>
        segment_crosses_fill_line ==
            \/ current_point[2] <= fill_line /\ next_point[2] > fill_line
            \/ current_point[2] > fill_line /\ next_point[2] <= fill_line
        hit == calculate_line_intersection(current_point, next_point,
                                           fill_line)
        intersection_valid ==
            IF bulb = "Top" THEN hit[1][2] >= center_y
                            ELSE hit[1][2] <= center_y
    IN  IF segment_crosses_fill_line /\ hit # <<>> /\ intersection_valid
        THEN [result |-> IF current_included # next_included
                         THEN Append(res1, hit[1]) ELSE res1,
              ints   |-> <<hit[1]>>]
        ELSE [result |-> res1, ints |-> <<>>]

\* result_points and fill_line_intersections after the loop of the flat clip
FlatLoop(hourglass_outline, fill_line, bulb) ==
    LET n == Len(hourglass_outline)
        steps == [i \in 1..n |->
                     FlatStep(hourglass_outline, fill_line, bulb, i)]
    IN  [result |-> ConcatRange([i \in 1..n |-> steps[i].result], 1, n),
         ints   |-> ConcatRange([i \in 1..n |-> steps[i].ints], 1, n)]

\* the closing points in ascending x order for both bulbs
ClosingOrder_ascending(ints, bulb) == SortByX(ints)

\* the closing points, in the order the flat clip re-emits them
ClosingOrder(ints, bulb) ==
    IF bulb = "Top" THEN Reverse(SortByX(ints)) ELSE SortByX(ints)

generate_outline_with_fill_line(hourglass_outline, fill_line, bulb) ==
    LET acc == FlatLoop(hourglass_outline, fill_line, bulb)
    IN  IF acc.ints # <<>>
        THEN PushMissing(acc.result, ClosingOrder(acc.ints, bulb))
        ELSE acc.result

\* left_x and right_x: the loop looking for the sand width at the base fill
\* line keeps the last intersection found on each side
SandExtent(hourglass_outline, base_fill_line) ==
    LET n == Len(hourglass_outline)
        hit(i) == calculate_line_intersection(hourglass_outline[i],
                      hourglass_outline[(i % n) + 1], base_fill_line)
        lefts  == {i \in 1..n : hit(i) # <<>> /\ hit(i)[1][1] < 0}
        rights == {i \in 1..n : hit(i) # <<>> /\ hit(i)[1][1] >= 0}
        last(S) == CHOOSE i \in S : \A k \in S : k <= i
    IN  [left_x  |-> IF lefts = {} THEN 0 ELSE hit(last(lefts))[1][1],
         right_x |-> IF rights = {} THEN 0 ELSE hit(last(rights))[1][1]]

\* mound_strength * sand_width * 0.1 * (1 - normalized_x^2) above the base line;
\* strength is bottom_mound_factor * k for fill_percent = k / FillDen
mounded_fill_line(x, base_fill_line, strength, ext) ==
    LET sand_width == ext.right_x - ext.left_x
        \* normalized_x * sand_width, clamped to [-1, 1] * sand_width
        nx == Max(-sand_width,
                  Min(sand_width, 2 * x - (ext.left_x + ext.right_x)))
    IN  IF sand_width <= 0 THEN base_fill_line
        ELSE base_fill_line
             + RDiv(strength * RDiv(sand_width * sand_width - nx * nx,
                                    sand_width),
                    Scale * FillDen * 10)

MoundIncluded(p, base_fill_line, strength, ext) ==
    p[2] <= center_y
    /\ p[2] <= mounded_fill_line(p[1], base_fill_line, strength, ext)

\* number of sub-steps sampled along an edge that crosses the mound
samples == 10

\* number of intervals of the mound curve between the outermost crossings
curve_samples == 20

\* the sample of an edge at t = j / samples, moved onto the mound curve
MoundSample(current_point, next_point, j, base_fill_line, strength, ext) ==
    LET sample_x == Lerp(current_point[1], next_point[1], j, samples)
        sample_y == Lerp(current_point[2], next_point[2], j, samples)
    IN  [included |-> MoundIncluded(<<sample_x, sample_y>>, base_fill_line,
                                    strength, ext),
         point |-> <<sample_x,
                     mounded_fill_line(sample_x, base_fill_line, strength,
                                       ext)>>]

\* the crossing found by the sampling loop: <<>> when no sample differs
MoundCrossing(current_point, next_point, current_included, base_fill_line, strength, ext) ==
    LET differing == {j \in 1..(samples - 1) :
                        MoundSample(current_point, next_point, j,
                                    base_fill_line, strength, ext).included
                        # current_included}
    IN  IF differing = {} THEN <<>>
        ELSE LET first == CHOOSE j \in differing :
                              \A k \in differing : j <= k
             IN  <<MoundSample(current_point, next_point, first,
                               base_fill_line, strength, ext).point>>

\* what iteration i of the loop over the outline edges of the mounded clip
\* pushes to result_points and to fill_line_intersections
MoundStep(hourglass_outline, base_fill_line, strength, ext, i) ==
    LET n == Len(hourglass_outline)
        current_point == hourglass_outline[i]
        next_point    == hourglass_outline[(i % n) + 1]
        current_included ==
            MoundIncluded(current_point, base_fill_line, strength, ext)
        next_included ==
            MoundIncluded(next_point, base_fill_line, strength, ext)
        res1 == IF current_included THEN <<current_point>> ELSE <<>>
        hit  == IF current_included # next_included
                THEN MoundCrossing(current_point, next_point,
                         current_included, base_fill_line, strength, ext)
                ELSE <<>>
    IN  [result |-> res1 \o hit, ints |-> hit]

\* result_points and fill_line_intersections after the loop of the mounded clip
MoundLoop(hourglass_outline, base_fill_line, strength, ext) ==
    LET n == Len(hourglass_outline)
        steps == [i \in 1..n |->
                     MoundStep(hourglass_outline, base_fill_line, strength,
                               ext, i)]
    IN  [result |-> ConcatRange([i \in 1..n |-> steps[i].result], 1, n),
         ints   |-> ConcatRange([i \in 1..n |-> steps[i].ints], 1, n)]

\* the points of the mound curve from the leftmost to the rightmost crossing
CurvePoints(ints, base_fill_line, strength, ext) ==
    LET sorted    == SortByX(ints)
        leftmost  == sorted[1]
        rightmost == sorted[Len(sorted)]
    IN  [k \in 1..(curve_samples + 1) |->
            LET x == Lerp(leftmost[1], rightmost[1], k - 1, curve_samples)
            IN  <<x, mounded_fill_line(x, base_fill_line, strength, ext)>>]

generate_outline_with_mounded_fill_line(hourglass_outline, base_fill_line, bottom_mound_factor, fill_percent) ==
    LET strength == bottom_mound_factor * fill_percent
        ext == SandExtent(hourglass_outline, base_fill_line)
        acc == MoundLoop(hourglass_outline, base_fill_line, strength, ext)
    IN  IF bottom_mound_factor = 0
        THEN generate_outline_with_fill_line(hourglass_outline,
                                             base_fill_line, "Bottom")
        ELSE IF ext.right_x - ext.left_x <= 0
        THEN generate_outline_with_fill_line(hourglass_outline,
                                             base_fill_line, "Bottom")
        ELSE IF Len(acc.ints) >= 2
        THEN acc.result \o CurvePoints(acc.ints, base_fill_line, strength,
                                       ext)
        ELSE acc.result

\* neck_bottom = center_y - neck_height / 2
neck_bottom(neck_height) == center_y - RDiv(neck_height, 2)

\* the fill line measured from the wrong end of the chamber: the top bulb
\* filled from its top edge down
fill_line_of_inverted(fill_percent, bulb, neck_height, min_y, max_y) ==
    IF bulb = "Top"
    THEN center_y + RDiv((FillDen - fill_percent) * (max_y - center_y),
                         FillDen)
    ELSE min_y + RDiv((FillDen - fill_percent)
                          * (neck_bottom(neck_height) - min_y), FillDen)

fill_line_of(fill_percent, bulb, neck_height, min_y, max_y) ==
    IF bulb = "Top"
    THEN center_y + RDiv(fill_percent * (max_y - center_y), FillDen)
    ELSE min_y + RDiv((FillDen - fill_percent)
                          * (neck_bottom(neck_height) - min_y), FillDen)

\* filtered_points of generate_sand_outline
filtered_points(hourglass_outline, fill_percent, bulb, neck_height, min_y, max_y, bottom_mound_factor) ==
    LET fill_line == fill_line_of(fill_percent, bulb, neck_height, min_y,
                                  max_y)
    IN  IF bulb = "Bottom"
        THEN generate_outline_with_mounded_fill_line(hourglass_outline,
                 fill_line, bottom_mound_factor, fill_percent)
        ELSE generate_outline_with_fill_line(hourglass_outline, fill_line,
                                             bulb)

\* half of the minimum gap kept at the centerline inside the neck
HalfGap == Scale \div 2

\* the inset without the special handling at the neck
offset_to_use_unclamped(point, wall_offset, neck_height) == wall_offset

\* offset_to_use for one clipped point
offset_to_use(point, wall_offset, neck_height) ==
    LET neck_region_height == RDiv(neck_height, 2)
        potential_offset_x == IF point[1] >= 0 THEN point[1] - wall_offset
                              ELSE point[1] + wall_offset
    IN  IF Abs(point[2] - center_y) <= neck_region_height
        THEN IF point[1] >= 0 /\ potential_offset_x <= HalfGap
             THEN Max(point[1] - HalfGap, 0)
             ELSE IF point[1] < 0 /\ potential_offset_x >= -HalfGap
                  THEN Max(-point[1] - HalfGap, 0)
                  ELSE wall_offset
        ELSE wall_offset

offset_point(point, wall_offset, neck_height) ==
    IF point[1] >= 0
    THEN <<point[1] - offset_to_use(point, wall_offset, neck_height),
           point[2]>>
    ELSE <<point[1] + offset_to_use(point, wall_offset, neck_height),
           point[2]>>

\* the stream condition without the test on fill_percent
stream_added_always(sand_points, fill_percent, bulb) ==
    bulb = "Top" /\ sand_points # <<>>

\* the condition under which the falling stream is appended
stream_added(sand_points, fill_percent, bulb) ==
    bulb = "Top" /\ sand_points # <<>> /\ fill_percent > 0

\* the falling stream appended after the inset points
falling_stream(sand_points, min_y) ==
    LET left_neck_x  == sand_points[1][1]
        right_neck_x == sand_points[Len(sand_points)][1]
    IN  << <<right_neck_x, min_y>>, <<left_neck_x, min_y>> >>

\* the part of generate_sand_outline after the clip: fp is the value of
\* filtered_points the function has computed from hourglass_outline
generate_sand_outline(hourglass_outline, fp, fill_percent, wall_offset, bulb, neck_height, min_y) ==
    IF hourglass_outline = <<>> THEN <<>>
    ELSE LET sand_points == [k \in 1..Len(fp) |->
                                offset_point(fp[k], wall_offset, neck_height)]
         IN  IF fp = <<>> THEN <<>>
             ELSE IF stream_added(sand_points, fill_percent, bulb)
                  THEN sand_points \o falling_stream(sand_points, min_y)
                  ELSE sand_points

----------------------------------------------------------------------------
(* The inputs drawn by the model *)

\* largest wall offset drawn, in steps of WallOffsetStep
MaxWallOffset == 2

WallOffsetStep == 2 * Scale

WallOffsets == {k * WallOffsetStep : k \in 0..MaxWallOffset}

\* largest resolution drawn for a curve sampled on its own
MaxRes == 3

BulbStyles ==
    {BulbStyleDefault, BulbCircular(Scale \div 2, Scale, 3),
     BulbStraight((3 * Scale) \div 2)}

NeckStyles ==
    {NeckStyleDefault, NeckStraight(2 * Scale, 8 * Scale),
     NeckCurved(2 * Scale, 6 * Scale, 8 * Scale, 4)}

MoundFactors == {0, Scale, 8 * Scale}

FillPercents == 0..FillDen

\* the lowest y of a non-empty point sequence
MinY(pts) ==
    CHOOSE y \in {pts[k][2] : k \in 1..Len(pts)} :
        \A k \in 1..Len(pts) : y <= pts[k][2]

\* the highest y of a non-empty point sequence
MaxY(pts) ==
    CHOOSE y \in {pts[k][2] : k \in 1..Len(pts)} :
        \A k \in 1..Len(pts) : y >= pts[k][2]

NoArgs ==
    [fill_percent |-> 0, wall_offset |-> 0, bulb |-> "Top", neck_height |-> 0,
     min_y |-> 0, max_y |-> 0, bottom_mound_factor |-> 0]

NoCurve == straight_line(<<0, 0>>, <<0, 0>>)

ArcAngles == {k * QuarterTurn : k \in 0..4}

ArcResolutions == {r \in 0..MaxRes : r = 0 \/ QuarterTurn % r = 0}

TransitionResolutions == {r \in 0..MaxRes : r = 0 \/ HalfTurn % r = 0}

CurvePoints2D == {<<0, 0>>, <<3 * Scale, 4 * Scale>>, <<-2 * Scale, 0>>}

Arcs ==
    {CircularArc(c, 10 * Scale, s, e, cw) :
        c \in {<<0, 0>>, <<Scale, -2 * Scale>>}, s \in ArcAngles,
        e \in ArcAngles, cw \in BOOLEAN}

Transitions ==
    {SmoothTransition(s, e, cv, d) :
        s \in CurvePoints2D, e \in CurvePoints2D,
        cv \in {0, Scale \div 2, 2 * Scale},
        d \in {"None", "Inward", "Outward"}}

----------------------------------------------------------------------------
(* The Hourglass timer component (src/src/components.rs)                   *)
(*                                                                         *)
(* total_time, flip_duration and delta are integer numbers of seconds.     *)
(* upper_chamber, lower_chamber and flow_rate are f32 values held as       *)
(* integer numbers of ChamberScale-ths (1.0 is ChamberScale = 2^26), and   *)
(* remaining_time is in ChamberScale-ths of a second.  Every arithmetic    *)
(* result is rounded as f32 rounds it: to 24 significant bits, ties to     *)
(* even.  For total_time < 8 the quotient 1.0 / total_time is at least     *)
(* 2^-3, whose floats are the multiples of 2^-26; all sums, differences    *)
(* and products of the update are then multiples of 2^-26 before they are  *)
(* rounded, so the integers hold them exactly.  flip_progress is a         *)
(* numerator over flip_duration (1.0 is flip_duration), so that            *)
(* delta / flip_duration is the numerator delta.  Rotations are in         *)
(* 3-degree steps.                                                         *)

\* the resolution of a chamber fill fraction
ChamberScale == 2^26

\* the number of values of an f32 significand (24 bits)
Significand == 2^24

\* n / m rounded to the nearest integer, ties to the even one
RoundHalfEven(n, m) ==
    LET q == n \div m
        r == n % m
    IN  IF 2 * r < m THEN q
        ELSE IF 2 * r > m THEN q + 1
        ELSE IF q % 2 = 0 THEN q ELSE q + 1

RECURSIVE Ulp(_, _, _)
\* the spacing, in ChamberScale-ths, of the f32 values around n / d, found
\* from u upwards
Ulp(n, d, u) ==
    IF n \div (d * u) < Significand THEN u ELSE Ulp(n, d, 2 * u)

\* n / d rounded to the spacing u
RoundTo(n, d, u) == u * RoundHalfEven(n, d * u)

\* the f32 nearest to the quotient n / d of two non-negative values (the
\* value of n and the spacing are each worked out once)
F32(n, d) ==
    CHOOSE f \in {RoundTo(x[1], d, x[2]) :
                     x \in {<<v, Ulp(v, d, 1)>> : v \in {n}}} : TRUE

\* Hourglass::new(total_time) for total_time > 0, the other fields from
\* Default
Hourglass_new(total_time) ==
    [total_time |-> total_time,
     remaining_time |-> total_time * ChamberScale,
     flow_rate |-> F32(ChamberScale, total_time),
     running |-> TRUE, flipped |-> FALSE, flipping |-> FALSE,
     flip_duration |-> 1, flip_progress |-> 0,
     auto_flip_when_empty |-> FALSE,
     current_rotation |-> 0, target_rotation |-> 0,
     upper_chamber |-> ChamberScale, lower_chamber |-> 0]

\* f32::clamp
Clamp(v, lo, hi) == Max(lo, Min(v, hi))

\* the sand leaving the upper chamber without reaching the lower one
update_sand_lost(h, delta) ==
    LET transfer == Min(F32(h.flow_rate * delta, 1), h.upper_chamber)
    IN  [h EXCEPT
            !.upper_chamber = Clamp(F32(h.upper_chamber - transfer, 1), 0,
                                    ChamberScale)]

\* Hourglass::update_sand
update_sand(h, delta) ==
    LET transfer_amount == F32(h.flow_rate * delta, 1)
        transfer == Min(transfer_amount, h.upper_chamber)
    IN  [h EXCEPT
            !.upper_chamber = Clamp(F32(h.upper_chamber - transfer, 1), 0,
                                    ChamberScale),
            !.lower_chamber = Clamp(F32(h.lower_chamber + transfer, 1), 0,
                                    ChamberScale)]

\* flip() restarting the animation also while a flip is in progress
flip_restarting(h) ==
    [h EXCEPT !.flipping = TRUE, !.flip_progress = 0,
              !.target_rotation = HalfTurn]

\* Hourglass::flip
flip(h) ==
    IF ~h.flipping
    THEN [h EXCEPT !.flipping = TRUE, !.flip_progress = 0,
                   !.target_rotation = HalfTurn]
    ELSE h

\* Hourglass::can_flip
can_flip(h) == ~h.flipping

\* the flip animation that leaves a stopped hourglass stopped when the
\* flip completes
update_flip_stopped(h, delta) ==
    IF h.flipping
    THEN LET flip_progress == h.flip_progress + delta
         IN  IF flip_progress >= h.flip_duration
             THEN [h EXCEPT
                      !.flip_progress = h.flip_duration,
                      !.flipping = FALSE,
                      !.current_rotation = 0,
                      !.target_rotation = 0,
                      !.upper_chamber = h.lower_chamber,
                      !.lower_chamber = h.upper_chamber,
                      !.remaining_time =
                          F32(h.total_time * ChamberScale
                                  - h.remaining_time, 1)]
             ELSE [h EXCEPT
                      !.flip_progress = flip_progress,
                      !.current_rotation =
                          RDiv(flip_progress * HalfTurn, h.flip_duration)]
    ELSE h

\* the flip animation completing without the swap of the chambers
update_flip_unswapped(h, delta) ==
    IF h.flipping
    THEN LET flip_progress == h.flip_progress + delta
         IN  IF flip_progress >= h.flip_duration
             THEN [h EXCEPT
                      !.flip_progress = h.flip_duration,
                      !.flipping = FALSE,
                      !.current_rotation = 0,
                      !.target_rotation = 0,
                      !.remaining_time =
                          F32(h.total_time * ChamberScale
                                  - h.remaining_time, 1),
                      !.running = IF ~h.running /\ h.upper_chamber > 0
                                  THEN TRUE ELSE h.running]
             ELSE [h EXCEPT
                      !.flip_progress = flip_progress,
                      !.current_rotation =
                          RDiv(flip_progress * HalfTurn, h.flip_duration)]
    ELSE h

\* the first part of Hourglass::update: the flip animation
update_flip(h, delta) ==
    IF h.flipping
    THEN LET flip_progress == h.flip_progress + delta
         IN  IF flip_progress >= h.flip_duration
             THEN [h EXCEPT
                      !.flip_progress = h.flip_duration,
                      !.flipping = FALSE,
                      !.current_rotation = 0,
                      !.target_rotation = 0,
                      !.upper_chamber = h.lower_chamber,
                      !.lower_chamber = h.upper_chamber,
                      !.remaining_time =
                          F32(h.total_time * ChamberScale
                                  - h.remaining_time, 1),
                      !.running = IF ~h.running /\ h.lower_chamber > 0
                                  THEN TRUE ELSE h.running]
             ELSE [h EXCEPT
                      !.flip_progress = flip_progress,
                      !.current_rotation =
                          RDiv(flip_progress * HalfTurn, h.flip_duration)]
    ELSE h

\* the sand flow that leaves an emptied hourglass running
update_flow_never_stopping(h, delta) ==
    IF h.running /\ ~h.flipping
    THEN LET s == update_sand(h, delta)
         IN  [s EXCEPT !.remaining_time =
                 F32(s.upper_chamber * s.total_time, 1)]
    ELSE h

\* the sand flowing also while the hourglass is flipping
update_flow_while_flipping(h, delta) ==
    IF h.running
    THEN LET s == update_sand(h, delta)
         IN  [s EXCEPT !.remaining_time =
                 F32(s.upper_chamber * s.total_time, 1)]
    ELSE h

\* the second part of Hourglass::update: sand flow and remaining time
update_flow(h, delta) ==
    IF h.running /\ ~h.flipping
    THEN LET s == update_sand(h, delta)
             r == [s EXCEPT !.remaining_time =
                       F32(s.upper_chamber * s.total_time, 1)]
         IN  IF r.upper_chamber <= 0
             THEN IF r.auto_flip_when_empty
                  THEN flip([r EXCEPT !.running = FALSE])
                  ELSE [r EXCEPT !.running = FALSE]
             ELSE r
    ELSE h

\* Hourglass::update
update(h, delta) == update_flow(update_flip(h, delta), delta)

\* was_running of update_hourglasses with the test on remaining_time left out
was_running_any(h) == TRUE

\* was_running of update_hourglasses
was_running(h) == h.running /\ h.remaining_time > 0

\* the number of HourglassFlipStartEvent update_hourglasses writes for an
\* hourglass found in state h
flip_start_events(h) == IF h.flipping THEN 1 ELSE 0

\* the number of HourglassEmptyEvent it writes, h being the state before
\* and after the state after hourglass.update(delta)
empty_events(h, after) ==
    IF was_running(h) /\ after.remaining_time = 0 THEN 1 ELSE 0

\* total_time arguments of Hourglass::new drawn
TotalTimes == {2, 3, 5}

\* values given to the public field flip_duration
FlipDurations == {1, 2}

\* largest delta of one frame
MaxDelta == 3

Deltas == 0..MaxDelta

\* the elapsed time is recorded up to this value
ElapsedCap == 8

NoCall == [op |-> "new", delta |-> 0, ret |-> FALSE]

NoEvents == [flip_start |-> 0, empty |-> 0]

\* at most this many flip start events are counted for one flip
EventCap == 3

\* at most this many flips are started by calls of flip()
MaxFlips == 2

\* elapsed: sum of the deltas since Hourglass::new (up to ElapsedCap);
\* flipped: a flip has started since then; flip_events: the number of
\* HourglassFlipStartEvent written for the flip in progress (up to
\* EventCap); last_flip_events: that number for the last completed flip
\* flips: the number of flip() calls that started a flip (up to MaxFlips)
NoHistory ==
    [elapsed |-> 0, flipped |-> FALSE, flip_events |-> 0,
     last_flip_events |-> 0, flips |-> 0]

----------------------------------------------------------------------------
(* The mesh hand-off layer (src/src/mesh_hourglass.rs)                     *)
(*                                                                         *)
(* An Option is a sequence of length 0 (None) or 1 (Some).  The vertices   *)
(* of a polygon handed to the triangulator are not modelled: a non-empty   *)
(* point list is a one-element sequence naming the polygon.  The           *)
(* triangulator is external: its answer to a non-empty polygon is an input *)
(* of the call, "Ok" or "Err".                                             *)

EarcutResults == {"Ok", "Err"}

\* the point list spawn_body builds: it is never empty
body_points == <<"body">>

\* a fill fraction of the mesh layer is an f32 held as an integer number of
\* MeshScale-ths: 1.0 is MeshScale, and the f32 values from 0.5 to 1.0 are
\* one MeshScale-th apart
MeshScale == 2^24

\* f32::EPSILON, 2^-23
FillEpsilon == 2

\* the fill fraction k / FillDen
FillFraction(k) == (k * MeshScale) \div FillDen

\* generate_top_sand_points: empty unless fill_percent > 0
generate_top_sand_points(fill_percent) ==
    IF fill_percent > 0 THEN <<"top">> ELSE <<>>

\* generate_bottom_sand_points: empty unless 1 - fill_percent > 0
generate_bottom_sand_points(fill_percent) ==
    IF MeshScale - fill_percent > 0 THEN <<"bottom">> ELSE <<>>

\* HourglassMeshBuilder::create_mesh_from_points
create_mesh_from_points(points, earcut) ==
    IF points = <<>> THEN <<>>
    ELSE IF earcut = "Ok" THEN <<[positions |-> points]>> ELSE <<>>

\* the new fill fraction taken as it is given
clamped_fill_percent_unclamped(new_fill_percent) == new_fill_percent

\* f32::clamp(0.0, 1.0) of a fill fraction
clamped_fill_percent(new_fill_percent) == Clamp(new_fill_percent, 0, MeshScale)

\* nothing handed to the triangulator yet
NotHanded == [points |-> <<>>, earcut |-> "Ok"]

\* the state before HourglassMeshBuilder::build: no entity spawned
\* pos: "new", "built" or "panic"; body_config: with_body was called;
\* sand_config: the fill_percent of the configuration given to with_sand,
\* if any; sand_state: the hourglass entity has a HourglassMeshSandState;
\* body, top, bottom: the Mesh2d component
\* of the body entity and of the two sand entities; fill_percent,
\* config_fill_percent, needs_update: HourglassMeshSandState; handed: the
\* last polygon handed to the triangulator for each entity and its answer;
\* log: the last call on the sand state (op, its argument, and the record
\* as it was before the call, without its log)
NoMesh ==
    [pos |-> "new", body_config |-> FALSE, sand_config |-> <<>>,
     sand_state |-> FALSE,
     body |-> <<>>, top |-> <<>>, bottom |-> <<>>,
     fill_percent |-> 0, config_fill_percent |-> 0, needs_update |-> FALSE,
     handed |-> [body |-> NotHanded, top |-> NotHanded,
                 bottom |-> NotHanded],
     log |-> <<>>]

\* the fill fractions given to with_sand
MeshFillPercents == {FillFraction(k) : k \in 0..FillDen}

\* the new fill fractions lie up to this many MeshScale-ths above k / FillDen
MaxFillOffset == 3

\* fill fractions given to update_sand_fill_percent, some out of range and
\* some within f32::EPSILON of each other
NewFillPercents ==
    {FillFraction(k) + d :
        k \in (-1)..(FillDen + 1), d \in 0..MaxFillOffset}

----------------------------------------------------------------------------
(* The component-based flip protocol: HourglassComponent, RotationState    *)
(* and InteractableHourglass.  Durations are whole seconds; angles are in  *)
(* 3-degree steps and are rounded to the nearest step                      *)

\* HourglassComponent::new(total_time)
HourglassComponent_new(total_time) ==
    [total_time |-> total_time,
     remaining_time |-> total_time,
     running |-> TRUE,
     flipped |-> FALSE,
     flipping |-> FALSE,
     update_during_flip |-> FALSE]

\* HourglassComponent::update without the early return while flipping
HourglassComponent_update_while_flipping(h, delta) ==
    IF ~h.running THEN h
    ELSE IF h.remaining_time > delta
         THEN [h EXCEPT !.remaining_time = @ - delta]
         ELSE [h EXCEPT !.remaining_time = 0, !.running = FALSE]

\* HourglassComponent::update(delta)
HourglassComponent_update(h, delta) ==
    IF ~h.running \/ h.flipping THEN h
    ELSE IF h.remaining_time > delta
         THEN [h EXCEPT !.remaining_time = @ - delta]
         ELSE [h EXCEPT !.remaining_time = 0, !.running = FALSE]

\* HourglassComponent::flip()
HourglassComponent_flip(h) ==
    LET turned == [h EXCEPT !.flipped = ~@]
    IN  IF turned.remaining_time = 0
        THEN [turned EXCEPT !.remaining_time = turned.total_time,
                            !.running = TRUE]
        ELSE turned

\* HourglassComponent::start_flip()
HourglassComponent_start_flip(h) == [h EXCEPT !.flipping = TRUE]

\* HourglassComponent::complete_flip() without the call of flip()
HourglassComponent_complete_flip_unturned(h) == [h EXCEPT !.flipping = FALSE]

\* HourglassComponent::complete_flip()
HourglassComponent_complete_flip(h) ==
    HourglassComponent_flip([h EXCEPT !.flipping = FALSE])

\* RotationState::default(); flip_progress is kept as the numerator of the
\* fraction flip_progress / flip_duration
RotationState_default ==
    [current_rotation |-> 0,
     target_rotation |-> 0,
     is_flipping |-> FALSE,
     flip_progress |-> 0,
     flip_duration |-> 1,
     flip_elapsed |-> 0,
     easing |-> "QuadraticInOut"]

\* RotationState::start_flip(target_rotation)
RotationState_start_flip(r, target_rotation) ==
    [r EXCEPT !.target_rotation = target_rotation,
              !.is_flipping = TRUE,
              !.flip_progress = 0,
              !.flip_elapsed = 0]

\* EasingFunction::QuadraticInOut applied to t = n / d, as the numerator of
\* a fraction over d * d
QuadraticInOut(n, d) ==
    IF 2 * n < d THEN 2 * n * n
    ELSE 4 * n * d - 2 * n * n - d * d

\* RotationState::update_flip(delta_seconds): the state after the call and
\* the value returned
RotationState_update_flip(r, delta_seconds) ==
    IF ~r.is_flipping THEN [rotation |-> r, complete |-> FALSE]
    ELSE
      LET flip_elapsed == r.flip_elapsed + delta_seconds
          flip_progress == Min(flip_elapsed, r.flip_duration)
          eased_progress == QuadraticInOut(flip_progress, r.flip_duration)
          start_rotation == r.current_rotation
          rotation_diff == r.target_rotation - start_rotation
          moved ==
            [r EXCEPT
               !.flip_elapsed = flip_elapsed,
               !.flip_progress = flip_progress,
               !.current_rotation =
                   start_rotation
                   + RDiv(rotation_diff * eased_progress,
                          r.flip_duration * r.flip_duration)]
      IN  IF flip_progress >= r.flip_duration
          THEN [rotation |-> [moved EXCEPT
                                 !.is_flipping = FALSE,
                                 !.current_rotation = r.target_rotation],
                complete |-> TRUE]
          ELSE [rotation |-> moved, complete |-> FALSE]

\* InteractableHourglass::default(): min_angle -PI, max_angle 0
InteractableHourglass_default ==
    [is_interacting |-> FALSE,
     can_flip |-> TRUE,
     mouse_follow |-> FALSE,
     min_angle |-> -HalfTurn,
     max_angle |-> 0]

\* snap_threshold 0.1 rad lies between one and two 3-degree steps
SnapSteps == 2

\* angles of the cursor seen from the hourglass, atan2 in 3-degree steps
CursorAngles == {1 - HalfTurn, -QuarterTurn, QuarterTurn}

\* at most this many flips are requested of the component
MaxRequests == 2

\* largest delta of one frame of the component-based systems
MaxFrameDelta == 2

FrameDeltas == 0..MaxFrameDelta

\* total_time of the component
ComponentTimes == {2}

\* values given to the public fields can_flip and mouse_follow
InteractableSettings == {<<TRUE, FALSE>>, <<TRUE, TRUE>>, <<FALSE, FALSE>>}

\* nothing written by the systems in one frame
NoWritten ==
    [flip_start |-> 0, flip_complete |-> 0, is_flipped |-> FALSE,
     interaction |-> <<>>]

NoCount == [requests |-> 0, flip_start |-> 0, flip_complete |-> 0]

\* the entity of the component-based hourglass: its three components, the
\* z rotation of its Transform, the last system run or call and the events
\* it wrote, and the number of flips requested and of flip events written
\* so far
Entity(h, r, i) ==
    [hourglass |-> h,
     rotation |-> r,
     interactable |-> i,
     transform |-> 0,
     op |-> "new",
     written |-> NoWritten,
     count |-> NoCount]

ComponentIdle ==
    component = Entity(HourglassComponent_new(1), RotationState_default,
                       InteractableHourglass_default)

----------------------------------------------------------------------------
\* the timer, the component and the mesh layer untouched, for the callers of
\* the geometry
TimerIdle ==
    /\ ComponentIdle
    /\ hourglass = Hourglass_new(2)
    /\ before = Hourglass_new(2)
    /\ call = NoCall
    /\ events = NoEvents
    /\ history = NoHistory

MeshIdle == mesh = NoMesh

----------------------------------------------------------------------------
(* The caller of the outline builder and of the sand outline generator *)

Init ==
    /\ pc = "builder"
    /\ builder = HourglassShapeBuilder_new
    /\ outline_wo = 0
    /\ outline = <<>>
    /\ sand_args = NoArgs
    /\ filtered = <<>>
    /\ sand = <<>>
    /\ curve = NoCurve
    /\ curve_res = 0
    /\ curve_pts = <<>>
    /\ MeshIdle
    /\ TimerIdle

with_bulb_style(style) ==
    /\ pc = "builder"
    /\ builder' = [builder EXCEPT !.bulb_style = style]
    /\ UNCHANGED <<pc, outline_wo, outline, sand_args, filtered, sand,
                   curve, curve_res, curve_pts>>
    /\ UNCHANGED <<mesh, timer_vars>>

with_neck_style(style) ==
    /\ pc = "builder"
    /\ builder' = [builder EXCEPT !.neck_style = style]
    /\ UNCHANGED <<pc, outline_wo, outline, sand_args, filtered, sand,
                   curve, curve_res, curve_pts>>
    /\ UNCHANGED <<mesh, timer_vars>>

GenerateOutline(wall_offset) ==
    /\ pc = "builder"
    /\ pc' = "outline"
    /\ outline_wo' = wall_offset
    /\ outline' = generate_outline_with_wall_offset(builder, wall_offset)
    /\ UNCHANGED <<builder, sand_args, filtered, sand, curve, curve_res,
                   curve_pts>>
    /\ UNCHANGED <<mesh, timer_vars>>

GenerateSandOutline(fill_percent, wall_offset, bulb, bottom_mound_factor) ==
    /\ pc = "outline"
    /\ pc' = "sand"
    /\ sand_args' = [fill_percent |-> fill_percent,
                     wall_offset |-> wall_offset, bulb |-> bulb,
                     neck_height |-> builder.neck_style.height,
                     min_y |-> MinY(outline), max_y |-> MaxY(outline),
                     bottom_mound_factor |-> bottom_mound_factor]
    /\ filtered' = filtered_points(outline, fill_percent, bulb,
                       sand_args'.neck_height, sand_args'.min_y,
                       sand_args'.max_y, bottom_mound_factor)
    /\ sand' = generate_sand_outline(outline, filtered', fill_percent,
                   wall_offset, bulb, sand_args'.neck_height,
                   sand_args'.min_y)
    /\ UNCHANGED <<builder, outline_wo, outline, curve, curve_res, curve_pts>>
    /\ UNCHANGED <<mesh, timer_vars>>

Next ==
    \/ \E s \in BulbStyles : with_bulb_style(s)
    \/ \E s \in NeckStyles : with_neck_style(s)
    \/ \E wo \in WallOffsets : GenerateOutline(wo)
    \/ \E f \in FillPercents, wo \in WallOffsets :
           GenerateSandOutline(f, wo, "Top", 0)
    \/ \E f \in FillPercents, wo \in WallOffsets, mf \in MoundFactors :
           GenerateSandOutline(f, wo, "Bottom", mf)

Spec == Init /\ [][Next]_vars

----------------------------------------------------------------------------
(* The caller of a single curve generator *)

InitCurves ==
    /\ pc = "curve"
    /\ builder = HourglassShapeBuilder_new
    /\ outline_wo = 0
    /\ outline = <<>>
    /\ sand_args = NoArgs
    /\ filtered = <<>>
    /\ sand = <<>>
    /\ curve = NoCurve
    /\ curve_res = 0
    /\ curve_pts = <<>>
    /\ MeshIdle
    /\ TimerIdle

GeneratePoints(c, resolution) ==
    /\ pc = "curve"
    /\ pc' = "points"
    /\ curve' = c
    /\ curve_res' = resolution
    /\ curve_pts' = generate_points(c, resolution)
    /\ UNCHANGED <<builder, outline_wo, outline, sand_args, filtered, sand>>
    /\ UNCHANGED <<mesh, timer_vars>>

\* CompositeCurve
CompositeCurve(segments) == [kind |-> "CompositeCurve", segments |-> segments]

\* CompositeCurve::generate_points: every segment sampled at
\* resolution / segments.len(), the first point of every segment after the
\* first removed
CompositeCurve_generate_points(c, resolution) ==
    IF c.segments = <<>> THEN <<>>
    ELSE LET k == Len(c.segments)
             segment_resolution == resolution \div Max(k, 1)
             segment_points ==
                 [i \in 1..k |->
                     IF i > 1
                     THEN DropFirst(generate_points(c.segments[i],
                                                    segment_resolution))
                     ELSE generate_points(c.segments[i], segment_resolution)]
         IN  ConcatRange(segment_points, 1, k)

CompositeCurve_start_point(c) ==
    IF c.segments = <<>> THEN <<0, 0>> ELSE start_point(c.segments[1])

CompositeCurve_end_point(c) ==
    IF c.segments = <<>> THEN <<0, 0>>
    ELSE end_point(c.segments[Len(c.segments)])

\* largest number of segments of a composite curve drawn
MaxSegments == 2

\* the segments drawn: arcs of both directions and transitions that meet
\* end to start
SegmentCurves ==
    {CircularArc(<<0, 0>>, 10 * Scale, 0, QuarterTurn, FALSE),
     CircularArc(<<0, 0>>, 10 * Scale, 0, QuarterTurn, TRUE),
     CircularArc(<<0, 0>>, 10 * Scale, QuarterTurn, 0, TRUE),
     SmoothTransition(<<10 * Scale, 0>>, <<0, 10 * Scale>>, Scale, "Outward"),
     SmoothTransition(<<0, 10 * Scale>>, <<10 * Scale, 0>>, Scale \div 2,
                      "Inward"),
     straight_line(<<0, 10 * Scale>>, <<-2 * Scale, 0>>)}

SegmentSeqs ==
    UNION {[1..k -> SegmentCurves] : k \in 0..MaxSegments}

\* resolutions whose share per segment divides a quarter turn
CompositeResolutions == {0, 1, 2, 3, 6}

GenerateCompositePoints(segments, resolution) ==
    /\ pc = "curve"
    /\ pc' = "composite"
    /\ curve' = CompositeCurve(segments)
    /\ curve_res' = resolution
    /\ curve_pts' = CompositeCurve_generate_points(curve', resolution)
    /\ UNCHANGED <<builder, outline_wo, outline, sand_args, filtered, sand>>
    /\ UNCHANGED <<mesh, timer_vars>>

NextCurves ==
    \/ \E c \in Arcs, r \in ArcResolutions : GeneratePoints(c, r)
    \/ \E c \in Transitions, r \in TransitionResolutions :
           GeneratePoints(c, r)
    \/ \E segs \in SegmentSeqs, r \in CompositeResolutions :
           GenerateCompositePoints(segs, r)

SpecCurves == InitCurves /\ [][NextCurves]_vars

----------------------------------------------------------------------------
(* Properties of the sand outline generator *)

SandCall == pc = "sand"

\* |y - center_y| <= neck_height / 2
InNeckBand(p, neck_height) == Abs(p[2] - center_y) <= RDiv(neck_height, 2)

\* C1: generate_sand_outline with fill_percent = 0.0 and SandBulb::Top
\* returns an empty point sequence.
C1_TopEmptyAtZeroFill ==
    (SandCall /\ outline # <<>> /\ sand_args.bulb = "Top"
     /\ sand_args.fill_percent = 0)
    => sand = <<>>

\* C2: generate_sand_outline with fill_percent = 1.0 and SandBulb::Bottom,
\* min_y being the lowest y of the outline, returns an empty point sequence.
C2_BottomEmptyAtFullFill ==
    (SandCall /\ outline # <<>> /\ sand_args.bulb = "Bottom"
     /\ sand_args.fill_percent = FillDen /\ sand_args.min_y = MinY(outline))
    => sand = <<>>

\* C3: for SandBulb::Bottom with min_y <= neck_bottom, every returned point
\* has y <= neck_bottom, with or without a mound.
C3_BottomBelowNeck ==
    (SandCall /\ sand_args.bulb = "Bottom"
     /\ sand_args.min_y <= neck_bottom(sand_args.neck_height))
    => \A k \in 1..Len(sand) : sand[k][2] <= neck_bottom(sand_args.neck_height)

\* C4: a clipped point in the neck band stays on its own side of the
\* centerline after the inset: x >= 0 is returned with x >= 0, and x < 0 is
\* returned with x <= 0.
C4_NeckSidesKept ==
    SandCall =>
        \A k \in 1..Len(filtered) :
            InNeckBand(filtered[k], sand_args.neck_height) =>
                /\ sand[k][2] = filtered[k][2]
                /\ filtered[k][1] >= 0 => sand[k][1] >= 0
                /\ filtered[k][1] < 0 => sand[k][1] <= 0

\* a neck-band point whose plain inset by wall_offset would cross the centerline
C4_Witness ==
    /\ SandCall
    /\ \E k \in 1..Len(filtered) :
           /\ InNeckBand(filtered[k], sand_args.neck_height)
           /\ Abs(filtered[k][1]) < sand_args.wall_offset
           /\ sand[k][1] # filtered[k][1]

RECURSIVE SumRange(_, _, _)
\* term[lo] + ... + term[hi]
SumRange(term, lo, hi) ==
    IF lo > hi THEN 0
    ELSE IF lo = hi THEN term[lo]
    ELSE SumRange(term, lo, (lo + hi) \div 2)
         + SumRange(term, (lo + hi) \div 2 + 1, hi)

\* twice the shoelace signed area of the closed polygon pts (positive when
\* the vertices run counterclockwise)
SignedArea2(pts) ==
    LET n == Len(pts)
    IN  SumRange([k \in 1..n |->
                     pts[k][1] * pts[(k % n) + 1][2]
                     - pts[(k % n) + 1][1] * pts[k][2]], 1, n)

\* the builders the winding claim covers
ProperBuilder(b) ==
    /\ b.total_height > b.neck_style.height
    /\ bulb_width(b) > 0
    /\ width(b.neck_style) < 2 * bulb_width(b)

\* the inward bend of a curved neck (curvature * height * 0.1) does not
\* exceed half the neck width, so the two neck walls do not cross
NeckWallsApart(b) ==
    b.neck_style.kind = "Curved" =>
        2 * b.neck_style.curvature * b.neck_style.height
            <= 10 * Scale * width(b.neck_style)

\* C5 as stated: the sequence returned by generate_outline is in
\* counterclockwise order (positive shoelace area).
C5_Counterclockwise ==
    (pc = "outline" /\ outline_wo = 0 /\ ProperBuilder(builder))
    => SignedArea2(outline) > 0

\* C5 amended: the sequence returned by generate_outline is in clockwise
\* order (negative shoelace area) for every proper builder whose neck walls
\* do not cross.
C5_Clockwise ==
    (pc = "outline" /\ outline_wo = 0 /\ ProperBuilder(builder)
     /\ NeckWallsApart(builder))
    => SignedArea2(outline) < 0

C5_Witness ==
    /\ pc = "outline" /\ outline_wo = 0 /\ ProperBuilder(builder)
    /\ NeckWallsApart(builder)
    /\ builder.neck_style.kind = "Curved" /\ builder.neck_style.curvature > 0
    /\ Len(outline) > 4

Sign(a) == IF a > 0 THEN 1 ELSE IF a < 0 THEN -1 ELSE 0

\* the side of the line a -> b on which c lies
Orient(a, b, c) ==
    Sign((b[1] - a[1]) * (c[2] - a[2]) - (b[2] - a[2]) * (c[1] - a[1]))

\* the segments a-b and c-d cross at a point interior to both
ProperlyCross(a, b, c, d) ==
    /\ Orient(a, b, c) * Orient(a, b, d) < 0
    /\ Orient(c, d, a) * Orient(c, d, b) < 0

\* no two edges of the closed vertex cycle cross each other
NoCrossingEdges(pts) ==
    LET n == Len(pts)
    IN  \A i \in 1..n : \A j \in (i + 1)..n :
            ~ProperlyCross(pts[i], pts[(i % n) + 1], pts[j], pts[(j % n) + 1])

\* C6: every non-empty sequence returned by generate_sand_outline is a simple
\* closed polygon: no two non-adjacent edges of the vertex cycle intersect
\* (two edges crossing at interior points are never adjacent).
C6_SimplePolygon ==
    (SandCall /\ sand # <<>>) => NoCrossingEdges(sand)

\* C7: generate_sand_outline with fill_percent = 1.0 and SandBulb::Top, max_y
\* and min_y being the extreme y of the outline, returns a non-empty sequence
\* whose maximum y is max_y and which holds the two stream points at min_y.
C7_FullTop ==
    (SandCall /\ sand_args.bulb = "Top" /\ sand_args.fill_percent = FillDen
     /\ sand_args.max_y = MaxY(outline) /\ sand_args.min_y = MinY(outline))
    => /\ sand # <<>>
       /\ MaxY(sand) = sand_args.max_y
       /\ Len(sand) >= 3
       /\ sand[Len(sand) - 1][2] = sand_args.min_y
       /\ sand[Len(sand)][2] = sand_args.min_y
       /\ \E k \in 1..(Len(sand) - 2) : sand[k][2] = sand_args.max_y

C7_Witness ==
    /\ SandCall /\ sand_args.bulb = "Top" /\ sand_args.fill_percent = FillDen
    /\ sand_args.max_y = MaxY(outline) /\ sand_args.min_y = MinY(outline)
    /\ sand_args.wall_offset > 0
    /\ Len(sand) > 4

----------------------------------------------------------------------------
(* Properties of the curve generators and of the outline builder *)

\* C9: generate_points(r) of every CircularArc and SmoothTransition returns
\* max(r, 1) + 1 points, the first being start_point() and the last
\* end_point().
C9_CurveEndpoints ==
    pc = "points" =>
        /\ Len(curve_pts) = Max(curve_res, 1) + 1
        /\ curve_pts[1] = start_point(curve)
        /\ curve_pts[Len(curve_pts)] = end_point(curve)

\* C10: for wall_offset > 0 every vertex of
\* generate_outline_with_wall_offset(wall_offset) in the neck band
\* |y| <= neck_height / 2 has |x| >= wall_offset + 1.
C10_NeckClearance ==
    (pc = "outline" /\ outline_wo > 0) =>
        \A k \in 1..Len(outline) :
            InNeckBand(outline[k], builder.neck_style.height) =>
                Abs(outline[k][1]) >= outline_wo + Scale

----------------------------------------------------------------------------
(* The caller of the outline builder alone, over more builders *)

\* total_height arguments of HourglassShapeBuilder::new: the default size
\* and an hourglass hardly taller than its neck
TotalHeights == {200 * Scale, 10 * Scale}

\* the bulb styles above and one sampled at curve_resolution 0
OutlineBulbStyles == BulbStyles \cup {BulbCircular(Scale, Scale \div 2, 0)}

\* the neck styles above and one sampled at curve_resolution 0
OutlineNeckStyles ==
    NeckStyles \cup {NeckCurved(Scale \div 5, 6 * Scale, 8 * Scale, 0)}

InitOutline ==
    /\ pc = "builder"
    /\ builder \in {[HourglassShapeBuilder_new EXCEPT !.total_height = h] :
                       h \in TotalHeights}
    /\ outline_wo = 0
    /\ outline = <<>>
    /\ sand_args = NoArgs
    /\ filtered = <<>>
    /\ sand = <<>>
    /\ curve = NoCurve
    /\ curve_res = 0
    /\ curve_pts = <<>>
    /\ MeshIdle
    /\ TimerIdle

NextOutline ==
    \/ \E s \in OutlineBulbStyles : with_bulb_style(s)
    \/ \E s \in OutlineNeckStyles : with_neck_style(s)
    \/ \E wo \in WallOffsets : GenerateOutline(wo)

SpecOutline == InitOutline /\ [][NextOutline]_vars

\* max(curve_resolution, 1) of the bulb curves and of the neck curves
BulbSegments == Max(bulb_curve_resolution(builder.bulb_style), 1)

NeckSegments == Max(neck_curve_resolution(builder.neck_style), 1)

\* the number of indices at which the outline holds point p
Occurrences(p) == Cardinality({k \in 1..Len(outline) : outline[k] = p})

\* C11: generate_outline_with_wall_offset emits bottom-left bulb, left neck,
\* top-left bulb, the single top-cap vertex, top-right bulb, right neck and
\* bottom-right bulb, every junction vertex once and no bottom-cap vertex:
\* 4*max(b,1) + 2*max(n,1) + 2 vertices, the first (-bulb_width,
\* -half_height) and the last (bulb_width, -half_height).
C11_OutlineParts ==
    pc = "outline" =>
        LET B   == BulbSegments
            N   == NeckSegments
            bw  == bulb_width(builder)
            hh  == RDiv(builder.total_height, 2)
            nhw == RDiv(neck_width_used(builder, outline_wo), 2)
            nhh == RDiv(builder.neck_style.height, 2)
            junctions ==
                << <<-bw, -hh>>, <<-nhw, -nhh>>, <<-nhw, nhh>>, <<-bw, hh>>,
                   <<bw, hh>>, <<nhw, nhh>>, <<nhw, -nhh>>, <<bw, -hh>> >>
            at == <<1, B + 1, B + N + 1, 2 * B + N + 1, 2 * B + N + 2,
                    3 * B + N + 2, 3 * B + 2 * N + 2, 4 * B + 2 * N + 2>>
        IN  /\ Len(outline) = 4 * B + 2 * N + 2
            /\ \A j \in 1..8 :
                   /\ outline[at[j]] = junctions[j]
                   /\ Occurrences(junctions[j]) = 1

C11_Witness ==
    /\ pc = "outline"
    /\ bulb_curve_resolution(builder.bulb_style) = 0
    /\ neck_curve_resolution(builder.neck_style) = 0
    /\ Len(outline) = 8
    /\ outline_wo > 0

----------------------------------------------------------------------------
(* The sand area as a function of fill_percent *)

\* the value generate_sand_outline returns for SandBulb::Top and fill
\* fraction f / FillDen, the other arguments being those of the last call
TopSandAt(f) ==
    generate_sand_outline(outline,
        filtered_points(outline, f, "Top", sand_args.neck_height,
                        sand_args.min_y, sand_args.max_y, 0),
        f, sand_args.wall_offset, "Top", sand_args.neck_height,
        sand_args.min_y)

\* twice the area enclosed by the closed polygon pts
Area2(pts) == Abs(SignedArea2(pts))

\* C13: for SandBulb::Top, with the outline, wall_offset, neck_height, min_y
\* and max_y held fixed, the area of the polygon generate_sand_outline
\* returns is non-decreasing in fill_percent.
C13_AreaMonotone ==
    (SandCall /\ sand_args.bulb = "Top") =>
        \A f \in 0..sand_args.fill_percent :
            Area2(TopSandAt(f)) <= Area2(sand)

C13_Witness ==
    /\ SandCall /\ sand_args.bulb = "Top"
    /\ sand_args.fill_percent = FillDen
    /\ Area2(TopSandAt(1)) > 0
    /\ Area2(TopSandAt(1)) < Area2(sand)

----------------------------------------------------------------------------
(* Properties of CompositeCurve *)

\* C14: CompositeCurve::generate_points(R) over k >= 1 segments returns
\* k * max(floor(R / k), 1) + 1 points, the first being the first segment's
\* start_point and the last the last segment's end_point; with no segments
\* it returns the empty sequence.
C14_CompositePoints ==
    pc = "composite" =>
        LET k == Len(curve.segments)
        IN  IF k = 0 THEN curve_pts = <<>>
            ELSE /\ Len(curve_pts) = k * Max(curve_res \div k, 1) + 1
                 /\ curve_pts[1] = CompositeCurve_start_point(curve)
                 /\ curve_pts[Len(curve_pts)] =
                        CompositeCurve_end_point(curve)

----------------------------------------------------------------------------
(* The caller of the mesh hand-off layer *)

geometry_vars ==
    <<pc, builder, outline_wo, outline, sand_args, filtered, sand, curve,
      curve_res, curve_pts>>

GeometryIdle ==
    /\ pc = "idle"
    /\ builder = HourglassShapeBuilder_new
    /\ outline_wo = 0
    /\ outline = <<>>
    /\ sand_args = NoArgs
    /\ filtered = <<>>
    /\ sand = <<>>
    /\ curve = NoCurve
    /\ curve_res = 0
    /\ curve_pts = <<>>

InitMesh == GeometryIdle /\ TimerIdle /\ MeshIdle

\* HourglassMeshBuilder::with_body
with_body ==
    /\ mesh.pos = "new"
    /\ mesh' = [mesh EXCEPT !.body_config = TRUE]
    /\ UNCHANGED <<geometry_vars, timer_vars>>

\* HourglassMeshBuilder::with_sand
with_sand(fill_percent) ==
    /\ mesh.pos = "new"
    /\ mesh' = [mesh EXCEPT !.sand_config = <<fill_percent>>]
    /\ UNCHANGED <<geometry_vars, timer_vars>>

\* the entities after spawn_sand and the insertion of the sand state
spawn_sand(m, fill_percent, earcut_top, earcut_bottom) ==
    LET top_points    == generate_top_sand_points(fill_percent)
        bottom_points == generate_bottom_sand_points(fill_percent)
    IN  [m EXCEPT
            !.top = create_mesh_from_points(top_points, earcut_top),
            !.bottom = create_mesh_from_points(bottom_points, earcut_bottom),
            !.sand_state = TRUE,
            !.fill_percent = fill_percent,
            !.config_fill_percent = fill_percent,
            !.needs_update = FALSE,
            !.handed.top = [points |-> top_points, earcut |-> earcut_top],
            !.handed.bottom = [points |-> bottom_points,
                               earcut |-> earcut_bottom]]

\* the entities after spawn_body, whose earcut(..).unwrap() has succeeded
spawn_body(m, earcut_body) ==
    [m EXCEPT !.body = <<[positions |-> body_points]>>,
              !.handed.body = [points |-> body_points,
                               earcut |-> earcut_body]]

\* HourglassMeshBuilder::build: the body if configured, whose triangulation
\* is unwrapped, then the sand if both sand and body are configured
Build(earcut_body, earcut_top, earcut_bottom) ==
    /\ mesh.pos = "new"
    /\ mesh' =
         IF mesh.body_config
         THEN IF earcut_body = "Err"
              THEN [mesh EXCEPT
                      !.pos = "panic",
                      !.handed.body = [points |-> body_points,
                                       earcut |-> earcut_body]]
              ELSE IF mesh.sand_config # <<>>
                   THEN [spawn_sand(spawn_body(mesh, earcut_body),
                                    mesh.sand_config[1], earcut_top,
                                    earcut_bottom)
                            EXCEPT !.pos = "built"]
                   ELSE [spawn_body(mesh, earcut_body)
                            EXCEPT !.pos = "built"]
         ELSE [mesh EXCEPT !.pos = "built"]
    /\ UNCHANGED <<geometry_vars, timer_vars>>

\* update_sand_fill_percent on the sand state of the built hourglass
update_sand_fill_percent(new_fill_percent) ==
    /\ mesh.pos = "built"
    /\ mesh.sand_state
    /\ LET log == <<[op |-> "update_sand_fill_percent",
                      new_fill_percent |-> new_fill_percent,
                      was |-> [mesh EXCEPT !.log = <<>>]]>>
       IN  mesh' =
             IF Abs(mesh.fill_percent
                        - clamped_fill_percent(new_fill_percent))
                    > FillEpsilon
             THEN [mesh EXCEPT
                     !.fill_percent = clamped_fill_percent(new_fill_percent),
                     !.config_fill_percent =
                         clamped_fill_percent(new_fill_percent),
                     !.needs_update = TRUE,
                     !.log = log]
             ELSE [mesh EXCEPT !.log = log]
    /\ UNCHANGED <<geometry_vars, timer_vars>>

\* one run of the system update_mesh_hourglass_sand
update_mesh_hourglass_sand(earcut_top, earcut_bottom) ==
    /\ mesh.pos = "built"
    /\ LET top_points ==
               generate_top_sand_points(mesh.config_fill_percent)
           bottom_points ==
               generate_bottom_sand_points(mesh.config_fill_percent)
           log == <<[op |-> "update_mesh_hourglass_sand",
                      new_fill_percent |-> 0,
                      was |-> [mesh EXCEPT !.log = <<>>]]>>
       IN  mesh' =
             IF ~mesh.sand_state \/ ~mesh.needs_update
             THEN [mesh EXCEPT !.log = log]
             ELSE [mesh EXCEPT
                     !.log = log,
                     !.needs_update = FALSE,
                     !.top = create_mesh_from_points(top_points, earcut_top),
                     !.bottom = create_mesh_from_points(bottom_points,
                                                        earcut_bottom),
                     !.handed.top = [points |-> top_points,
                                     earcut |-> earcut_top],
                     !.handed.bottom = [points |-> bottom_points,
                                        earcut |-> earcut_bottom]]
    /\ UNCHANGED <<geometry_vars, timer_vars>>

NextMesh ==
    \/ with_body
    \/ \E f \in MeshFillPercents : with_sand(f)
    \/ \E eb \in EarcutResults, et \in EarcutResults,
          ebo \in EarcutResults : Build(eb, et, ebo)
    \/ \E f \in NewFillPercents : update_sand_fill_percent(f)
    \/ \E et \in EarcutResults, ebo \in EarcutResults :
           update_mesh_hourglass_sand(et, ebo)

SpecMesh == InitMesh /\ [][NextMesh]_vars

\* polygon part of the hourglass was handed to the triangulator and was
\* empty or failed to triangulate
NothingToRender(part) ==
    /\ mesh.pos # "new"
    /\ IF part = "body" THEN mesh.body_config ELSE mesh.sand_state
    /\ \/ mesh.handed[part].points = <<>>
       \/ mesh.handed[part].earcut = "Err"

\* C15: an empty point sequence and a failed triangulation are handled
\* alike for every polygon handed to the triangulator (the glass body and
\* both sand polygons): no mesh is produced for it, and no triangulator
\* failure panics the host.
C15_RenderNothing ==
    /\ mesh.pos # "panic"
    /\ \A part \in {"body", "top", "bottom"} :
           NothingToRender(part) => mesh[part] = <<>>

----------------------------------------------------------------------------
(* The callers of the Hourglass component: the system update_hourglasses   *)
(* and the input handlers that call flip()                                 *)

\* an Hourglass::new(total_time) whose public fields flip_duration and
\* auto_flip_when_empty have been set
InitTimer ==
    /\ GeometryIdle
    /\ MeshIdle
    /\ \E total_time \in TotalTimes, flip_duration \in FlipDurations,
          auto \in BOOLEAN :
           hourglass = [Hourglass_new(total_time) EXCEPT
                           !.flip_duration = flip_duration,
                           !.auto_flip_when_empty = auto]
    /\ before = hourglass
    /\ call = NoCall
    /\ events = NoEvents
    /\ history = NoHistory
    /\ ComponentIdle

\* the flip in progress in h completes in update(h, delta)
flip_completes(h, delta) == h.flipping /\ ~update_flip(h, delta).flipping

\* a flip starts in the call that takes h to after: flip() on an hourglass
\* that is not flipping, or the auto flip of update
flip_starts(h, completed, after) ==
    after.flipping /\ (~h.flipping \/ completed)

\* a call of hourglass.flip()
Flip ==
    /\ hourglass.flipping \/ history.flips < MaxFlips
    /\ before' = hourglass
    /\ hourglass' = flip(hourglass)
    /\ call' = [op |-> "flip", delta |-> 0, ret |-> can_flip(hourglass)]
    /\ events' = NoEvents
    /\ history' = [history EXCEPT
                      !.flipped = @ \/ hourglass'.flipping,
                      !.flip_events =
                          IF flip_starts(hourglass, FALSE, hourglass')
                          THEN 0 ELSE @,
                      !.flips = IF hourglass.flipping THEN @ ELSE @ + 1]
    /\ UNCHANGED <<geometry_vars, mesh, component>>

\* one run of the system update_hourglasses over the hourglass, the frame
\* lasting delta
update_hourglasses(delta) ==
    /\ before' = hourglass
    /\ hourglass' = update(hourglass, delta)
    /\ call' = [op |-> "update", delta |-> delta, ret |-> FALSE]
    /\ events' = [flip_start |-> flip_start_events(hourglass),
                  empty |-> empty_events(hourglass, hourglass')]
    /\ LET written == Min(history.flip_events
                              + flip_start_events(hourglass), EventCap)
           completed == flip_completes(hourglass, delta)
       IN  history' =
             [elapsed |-> Min(history.elapsed + delta, ElapsedCap),
              flipped |-> history.flipped \/ hourglass'.flipping,
              flip_events |->
                  IF flip_starts(hourglass, completed, hourglass')
                  THEN 0 ELSE written,
              last_flip_events |->
                  IF completed THEN written ELSE history.last_flip_events,
              flips |-> history.flips]
    /\ UNCHANGED <<geometry_vars, mesh, component>>

NextTimer ==
    \/ Flip
    \/ \E delta \in Deltas : update_hourglasses(delta)

SpecTimer == InitTimer /\ [][NextTimer]_vars

----------------------------------------------------------------------------
(* Properties of the Hourglass component and of update_hourglasses *)

\* a and b differ by a few f32 roundings of a value near 1.0 at most
Near(a, b) == a - b <= 16 /\ b - a <= 16

\* C16: for an Hourglass::new(T), T > 0, never flipped, after update calls
\* with deltas summing to e, remaining_time = max(T - e, 0) and
\* upper_chamber = max(1 - e/T, 0) (up to rounding while sand is left); it
\* stops running (running = false, upper_chamber = 0) in the first update
\* after which e >= T, not earlier: it empties exactly when the time is up.
C16_EmptiesWhenTimeIsUp ==
    (~history.flipped /\ history.elapsed < ElapsedCap) =>
        LET left == Max(hourglass.total_time - history.elapsed, 0)
        IN  /\ hourglass.running <=> left > 0
            /\ left = 0 => /\ hourglass.upper_chamber = 0
                           /\ hourglass.remaining_time = 0
            /\ Near(hourglass.remaining_time, left * ChamberScale)
            /\ Near(hourglass.upper_chamber * hourglass.total_time,
                    left * ChamberScale)

\* C17: flip() called while flipping leaves every field unchanged (it does
\* not reset flip_progress); called while not flipping it sets flipping,
\* flip_progress = 0 and target_rotation = PI; can_flip() is true exactly
\* when flipping is false.
C17_FlipWhileFlipping ==
    call.op = "flip" =>
        /\ call.ret <=> ~before.flipping
        /\ IF before.flipping
           THEN hourglass = before
           ELSE hourglass = [before EXCEPT !.flipping = TRUE,
                                           !.flip_progress = 0,
                                           !.target_rotation = HalfTurn]

C17_Witness ==
    /\ call.op = "flip"
    /\ before.flipping /\ before.flip_progress > 0
    /\ hourglass.flip_progress = before.flip_progress
    /\ hourglass.flipping

\* C18: update_hourglasses writes exactly one HourglassFlipStartEvent per
\* flip: one on the tick on which the flip starts, none on the following
\* ticks while the same flip is in progress.
C18_OneFlipStartEvent ==
    /\ history.flip_events <= 1
    /\ (call.op = "update" /\ flip_completes(before, call.delta)) =>
           history.last_flip_events = 1

\* C19: update_hourglasses writes exactly one HourglassEmptyEvent each time
\* an hourglass becomes empty, on the tick where it was running with
\* remaining_time > 0 before the update and has remaining_time = 0 after;
\* none on later ticks while it stays empty or is flipping, none on ticks
\* where sand remains.
C19_OneEmptyEvent ==
    call.op = "update" =>
        /\ events.empty =
               IF /\ before.running /\ before.remaining_time > 0
                  /\ hourglass.remaining_time = 0
               THEN 1 ELSE 0
        /\ (before.upper_chamber = 0 /\ hourglass.upper_chamber = 0) =>
               events.empty = 0
        /\ (before.flipping /\ ~flip_completes(before, call.delta)) =>
               events.empty = 0
        /\ hourglass.upper_chamber > 0 => events.empty = 0

C19_Witness ==
    /\ call.op = "update"
    /\ events.empty = 1
    /\ before.upper_chamber > 0 /\ hourglass.upper_chamber = 0
    /\ hourglass.flipping

----------------------------------------------------------------------------
(* An auto-flipping hourglass driven by update_hourglasses alone, every    *)
(* frame lasting a positive time; the schedule runs the system in every    *)
(* frame, so the update is weakly fair                                     *)

PositiveDeltas == Deltas \ {0}

InitAutoFlip == InitTimer /\ hourglass.auto_flip_when_empty

NextAutoFlip == \E delta \in PositiveDeltas : update_hourglasses(delta)

SpecAutoFlip ==
    /\ InitAutoFlip
    /\ [][NextAutoFlip]_vars
    /\ WF_vars(NextAutoFlip)

\* the upper chamber has emptied in the last update call
Emptied ==
    /\ call.op = "update"
    /\ hourglass.upper_chamber = 0
    /\ before.running \/ flip_completes(before, call.delta)

\* a flip has completed in the last update call
Completed == call.op = "update" /\ flip_completes(before, call.delta)

\* the hourglass runs with sand on top
RunsAgain == hourglass.running /\ hourglass.upper_chamber > 0

\* every frame lasts at most half of total_time, and long enough for
\* flip_progress to grow by one f32 step at least and for the chamber to
\* drain in 2^16 frames at most
SmallDelta ==
    call.op = "update" =>
        /\ 2 * call.delta <= hourglass.total_time
        /\ call.delta * Significand >= hourglass.flip_duration
        /\ call.delta * 2^16 >= hourglass.total_time

----------------------------------------------------------------------------
(* Properties of the flat and of the mounded clip *)

\* the fill line of the last call of generate_sand_outline
SandFillLine ==
    fill_line_of(sand_args.fill_percent, sand_args.bulb,
                 sand_args.neck_height, sand_args.min_y, sand_args.max_y)

\* the last call of generate_sand_outline used the mounded clip
MoundedCall ==
    /\ SandCall
    /\ sand_args.bulb = "Bottom"
    /\ sand_args.bottom_mound_factor > 0
    /\ LET ext == SandExtent(outline, SandFillLine)
       IN  ext.right_x - ext.left_x > 0

\* the last call of generate_sand_outline used the flat clip
FlatCall == SandCall /\ outline # <<>> /\ ~MoundedCall

\* result_points and fill_line_intersections after the pass of that call
FlatPass == FlatLoop(outline, SandFillLine, sand_args.bulb)

\* the intersections collected in that call, in descending x order for Top
\* and in ascending x order for Bottom
ClosingPoints ==
    IF sand_args.bulb = "Top" THEN Reverse(SortByX(FlatPass.ints))
    ELSE SortByX(FlatPass.ints)

\* the closing points of that call that no earlier point of the output
\* equals: not pushed during the pass, and first among equal closing points
MissingClosing ==
    LET closing == ClosingPoints
        kept == {k \in 1..Len(closing) :
                    /\ ~Contains(FlatPass.result, closing[k])
                    /\ \A j \in 1..(k - 1) : closing[j] # closing[k]}
        pick(S) == CHOOSE k \in S : \A j \in S : k <= j
        nth[i \in 0..Cardinality(kept)] ==
            IF i = 0 THEN 0
            ELSE pick({k \in kept : k > nth[i - 1]})
    IN  [i \in 1..Cardinality(kept) |-> closing[nth[i]]]

\* C21: in the flat clip, after the pass over the outline edges, every
\* collected fill-line intersection is appended once more to the result, in
\* descending x order for Top and ascending x order for Bottom, so that the
\* output ends with the fill-line closing points.
C21_ClosingPointsAppended ==
    FlatCall =>
        filtered = FlatPass.result \o ClosingPoints

\* C21 as amended: only the collected intersections that the result does
\* not contain yet are appended, in that order.
C21_MissingClosingAppended ==
    FlatCall => filtered = FlatPass.result \o MissingClosing

C21_Witness ==
    /\ FlatCall
    /\ sand_args.bulb = "Top"
    /\ sand_args.fill_percent \in 1..(FillDen - 1)
    /\ Len(FlatPass.ints) >= 2
    /\ filtered = FlatPass.result

\* the mound of the last call of generate_sand_outline
MoundStrength == sand_args.bottom_mound_factor * sand_args.fill_percent

MoundExtent == SandExtent(outline, SandFillLine)

\* the endpoints of outline edge i
EdgeFrom(i) == outline[i]

EdgeTo(i) == outline[(i % Len(outline)) + 1]

\* vertex p of the outline is included under the mounded fill line
UnderMound(p) ==
    p[2] <= center_y
    /\ p[2] <= mounded_fill_line(p[1], SandFillLine, MoundStrength,
                                 MoundExtent)

\* the outline edges whose two endpoints differ in inclusion
ChangingEdges ==
    {i \in 1..Len(outline) : UnderMound(EdgeFrom(i)) # UnderMound(EdgeTo(i))}

\* sub-step j of edge i differs in inclusion from the edge's first endpoint
SampleDiffers(i, j) ==
    MoundSample(EdgeFrom(i), EdgeTo(i), j, SandFillLine, MoundStrength,
                MoundExtent).included # UnderMound(EdgeFrom(i))

\* p is the point of the mound curve at the first differing sub-step of
\* edge i
FirstCrossing(i, p) ==
    \E j \in 1..(samples - 1) :
        /\ SampleDiffers(i, j)
        /\ \A k \in 1..(j - 1) : ~SampleDiffers(i, k)
        /\ p = MoundSample(EdgeFrom(i), EdgeTo(i), j, SandFillLine,
                           MoundStrength, MoundExtent).point

\* C22: in the mounded clip, for every outline edge whose two endpoints
\* differ in inclusion under the mounded fill line, exactly one crossing
\* point is emitted between the two endpoints, on the mound curve at the
\* first sampled sub-step whose inclusion differs from that of the edge's
\* first endpoint; no inclusion-changing edge is left without a crossing.
C22_OneCrossingPerEdge ==
    MoundedCall =>
        LET included == {i \in 1..Len(outline) : UnderMound(EdgeFrom(i))}
            crossings == Cardinality(ChangingEdges)
            passed == Cardinality(included) + crossings
        IN  /\ Len(filtered) =
                   passed + IF crossings >= 2 THEN curve_samples + 1 ELSE 0
            /\ \A i \in ChangingEdges :
                   \E k \in 1..Len(filtered) : FirstCrossing(i, filtered[k])

----------------------------------------------------------------------------
(* Properties of Hourglass::update during and at the end of a flip *)

\* the last call was an update during a flip that it did not complete
StillFlipping ==
    /\ call.op = "update"
    /\ before.flipping
    /\ before.flip_progress + call.delta < before.flip_duration

\* C23: while an Hourglass is flipping and the flip does not complete in the
\* current call, update(delta) changes only flip_progress and
\* current_rotation: upper_chamber, lower_chamber, remaining_time and
\* running are left unchanged, whatever the value of running.
C23_FlippingFreezesSand ==
    StillFlipping =>
        /\ hourglass = [before EXCEPT
                           !.flip_progress = hourglass.flip_progress,
                           !.current_rotation = hourglass.current_rotation]
        /\ hourglass.flip_progress = before.flip_progress + call.delta

C23_Witness ==
    /\ StillFlipping
    /\ call.delta > 0
    /\ before.running /\ before.upper_chamber > 0
    /\ hourglass.upper_chamber = before.upper_chamber
    /\ hourglass.flip_progress > before.flip_progress

\* the last call was the update in which a flip completed
FlipCompleted ==
    /\ call.op = "update"
    /\ before.flipping
    /\ before.flip_progress + call.delta >= before.flip_duration

----------------------------------------------------------------------------
(* Invariants of the Hourglass component *)

\* C27: starting from Hourglass::new and applying any sequence of
\* update(delta >= 0) and flip() calls, sand is conserved: upper_chamber +
\* lower_chamber stays equal to 1 and both chambers stay within [0, 1] in
\* every reachable state, including across the swap at flip completion.
C27_SandConserved ==
    /\ hourglass.upper_chamber + hourglass.lower_chamber = ChamberScale
    /\ hourglass.upper_chamber \in 0..ChamberScale
    /\ hourglass.lower_chamber \in 0..ChamberScale

\* the sand held by the two chambers of h
TotalSand(h) == h.upper_chamber + h.lower_chamber

\* both chambers within [0, 1]
ChambersInRange ==
    /\ hourglass.upper_chamber \in 0..ChamberScale
    /\ hourglass.lower_chamber \in 0..ChamberScale

\* the distance of the sand held by h from 1
SandError(h) == Abs(TotalSand(h) - ChamberScale)

\* C27 as amended: both chambers stay within [0, 1], the sum is 1 after
\* Hourglass::new, flip() keeps it, and an update call, the swap at flip
\* completion included, moves it away from 1 by the f32 rounding of the
\* transfer only: by 2^-23 at most.
C27_SandNearlyConserved ==
    /\ TotalSand(hourglass) = ChamberScale
    /\ []ChambersInRange
    /\ [][SandError(hourglass') <= SandError(hourglass) + 8]_vars
    /\ [][call'.op = "flip" =>
              TotalSand(hourglass') = TotalSand(hourglass)]_vars

C27_Witness ==
    /\ FlipCompleted
    /\ before.upper_chamber > 0 /\ before.lower_chamber > 0
    /\ TotalSand(before) # ChamberScale
    /\ TotalSand(hourglass) # ChamberScale
    /\ Near(TotalSand(hourglass), ChamberScale)

\* the hourglass has stopped and no flip is in progress
Stopped == ~hourglass.running /\ ~hourglass.flipping

\* C28: starting from Hourglass::new(T), T > 0, and using only update and
\* flip, after every update call running and not flipping implies
\* upper_chamber > 0; and once the hourglass has stopped with
\* auto_flip_when_empty unset, further update calls leave the whole state
\* unchanged until flip() is called.
C28_RunningHasSand ==
    /\ [](call.op = "update" =>
             ((hourglass.running /\ ~hourglass.flipping) =>
                  hourglass.upper_chamber > 0))
    /\ [][(Stopped /\ ~hourglass.auto_flip_when_empty
               /\ call'.op = "update") => hourglass' = hourglass]_vars

C28_Witness ==
    /\ call.op = "update" /\ call.delta > 0
    /\ ~before.running /\ ~before.flipping
    /\ ~before.auto_flip_when_empty
    /\ before.upper_chamber = 0
    /\ history.flipped
    /\ hourglass = before

----------------------------------------------------------------------------
(* Properties of the sand state of the mesh hourglass *)

\* the last call on the sand state was op
SandStateCall(op) == mesh.log # <<>> /\ mesh.log[1].op = op

\* the mesh record, the log of the last call left out
MeshNow == [mesh EXCEPT !.log = <<>>]

\* the new fill fraction of the last update_sand_fill_percent, within [0, 1]
NewFill == Max(0, Min(mesh.log[1].new_fill_percent, MeshScale))

\* after a run of update_mesh_hourglass_sand: with the flag set the sand
\* meshes are regenerated from the stored configuration and the flag is
\* cleared; with the flag clear nothing changes
RegeneratedIfFlagged ==
    SandStateCall("update_mesh_hourglass_sand") =>
        LET was == mesh.log[1].was
        IN  IF was.sand_state /\ was.needs_update
            THEN /\ ~mesh.needs_update
                 /\ mesh.handed.top.points # <<>>
                        <=> was.config_fill_percent > 0
                 /\ mesh.handed.bottom.points # <<>>
                        <=> was.config_fill_percent < MeshScale
                 /\ mesh.top # <<>> <=>
                        (mesh.handed.top.points # <<>>
                             /\ mesh.handed.top.earcut = "Ok")
                 /\ mesh.bottom # <<>> <=>
                        (mesh.handed.bottom.points # <<>>
                             /\ mesh.handed.bottom.earcut = "Ok")
                 /\ mesh.fill_percent = was.fill_percent
                 /\ mesh.config_fill_percent = was.config_fill_percent
            ELSE MeshNow = was

\* C25: update_sand_fill_percent stores the new value clamped to [0, 1]
\* into both sand_state.fill_percent and sand_state.sand_config.fill_percent
\* and raises needs_update if and only if the clamped value differs from
\* the stored one; update_mesh_hourglass_sand regenerates the sand meshes
\* only for states whose needs_update is set and clears the flag, so every
\* raised flag is consumed by exactly one regeneration and a run with the
\* flag clear changes nothing.
C25_FlagRaisedIffChanged ==
    /\ SandStateCall("update_sand_fill_percent") =>
           LET was == mesh.log[1].was
           IN  /\ mesh.fill_percent = NewFill
               /\ mesh.config_fill_percent = NewFill
               /\ mesh.needs_update <=>
                      (was.needs_update \/ NewFill # was.fill_percent)
               /\ MeshNow = [was EXCEPT
                                !.fill_percent = mesh.fill_percent,
                                !.config_fill_percent =
                                    mesh.config_fill_percent,
                                !.needs_update = mesh.needs_update]
    /\ RegeneratedIfFlagged

\* C25 as amended: the clamped new value is stored and the flag raised if
\* and only if it differs from the stored one by more than f32::EPSILON;
\* otherwise the three fields keep their values.
C25_FlagRaisedIffChangedByEpsilon ==
    /\ SandStateCall("update_sand_fill_percent") =>
           LET was == mesh.log[1].was
           IN  IF Abs(was.fill_percent - NewFill) > FillEpsilon
               THEN MeshNow = [was EXCEPT
                                  !.fill_percent = NewFill,
                                  !.config_fill_percent = NewFill,
                                  !.needs_update = TRUE]
               ELSE MeshNow = was
    /\ RegeneratedIfFlagged

C25_Witness ==
    /\ SandStateCall("update_sand_fill_percent")
    /\ NewFill # mesh.log[1].was.fill_percent
    /\ mesh.fill_percent = mesh.log[1].was.fill_percent
    /\ ~mesh.needs_update

----------------------------------------------------------------------------
(* The systems and callers of the component-based flip protocol            *)

\* an entity spawned with HourglassComponent::new(total_time), a
\* RotationState and an InteractableHourglass whose public fields
\* flip_duration, can_flip and mouse_follow have been set
InitRotation ==
    /\ GeometryIdle
    /\ MeshIdle
    /\ hourglass = Hourglass_new(2)
    /\ before = hourglass
    /\ call = NoCall
    /\ events = NoEvents
    /\ history = NoHistory
    /\ \E total_time \in ComponentTimes, flip_duration \in FlipDurations,
          setting \in InteractableSettings :
           component =
             Entity(HourglassComponent_new(total_time),
                    [RotationState_default EXCEPT
                        !.flip_duration = flip_duration],
                    [InteractableHourglass_default EXCEPT
                        !.can_flip = setting[1],
                        !.mouse_follow = setting[2]])

\* a flip is requested when flipping is set on a component not flipping
Requested(h, after) ==
    IF ~h.flipping /\ after.flipping THEN 1 ELSE 0

\* the states of the left mouse button in one frame
MouseButtons == {"released", "just_pressed", "pressed", "just_released"}

\* the hourglass follows the mouse in this frame: mouse_follow is set, the
\* cursor is over the hourglass and the left button is down; the angle of
\* the cursor is read in such a frame only
Dragged(is_hovering, button) ==
    /\ component.interactable.mouse_follow
    /\ is_hovering
    /\ button \in {"just_pressed", "pressed"}

\* one run of the system handle_hourglass_interaction with the cursor in
\* the window: over the hourglass or not, at the given angle from it
handle_hourglass_interaction(is_hovering, button, angle) ==
    LET h == component.hourglass
        r == component.rotation
        i == component.interactable
        hover == IF is_hovering /\ ~i.is_interacting THEN <<"Hover">>
                 ELSE IF ~is_hovering /\ i.is_interacting
                      THEN <<"HoverExit">> ELSE <<>>
        clicked == is_hovering /\ button = "just_pressed"
        may_flip == clicked /\ i.can_flip /\ ~h.flipping
        click == IF ~clicked THEN <<>>
                 ELSE IF may_flip /\ i.mouse_follow
                      THEN <<"Click", "DragStart">> ELSE <<"Click">>
        h_clicked == IF may_flip /\ ~i.mouse_follow
                     THEN HourglassComponent_start_flip(h) ELSE h
        dragged == Dragged(is_hovering, button)
        clamped_angle == Clamp(angle, i.min_angle, i.max_angle)
        snap_to_min == Abs(clamped_angle - i.min_angle) < SnapSteps
        snap_to_max == Abs(clamped_angle - i.max_angle) < SnapSteps
        r_dragged ==
            IF ~dragged THEN r
            ELSE IF snap_to_min
                 THEN [r EXCEPT !.current_rotation = i.min_angle]
                 ELSE IF snap_to_max
                      THEN [r EXCEPT !.current_rotation = i.max_angle]
                      ELSE [r EXCEPT !.current_rotation = clamped_angle]
        h_dragged ==
            IF dragged /\ (snap_to_min \/ snap_to_max)
                       /\ h_clicked.flipped # snap_to_min
            THEN HourglassComponent_flip(h_clicked) ELSE h_clicked
        drag == IF dragged THEN <<"Drag">> ELSE <<>>
        release == IF i.mouse_follow /\ button = "just_released"
                   THEN <<"DragEnd">> ELSE <<>>
    IN  /\ may_flip => component.count.requests < MaxRequests
        /\ component' =
             [component EXCEPT
                !.hourglass = h_dragged,
                !.rotation = r_dragged,
                !.interactable = [i EXCEPT !.is_interacting = is_hovering],
                !.op = "interaction",
                !.written = [NoWritten EXCEPT
                    !.interaction = hover \o click \o drag \o release],
                !.count = [@ EXCEPT
                    !.requests = @ + Requested(h, h_dragged)]]
        /\ UNCHANGED <<geometry_vars, mesh, hourglass, before, call,
                       events, history>>

\* a call of hourglass.start_flip() by the application
StartFlip ==
    /\ component.count.requests < MaxRequests
    /\ component' =
         [component EXCEPT
            !.hourglass = HourglassComponent_start_flip(@),
            !.op = "start_flip",
            !.written = NoWritten,
            !.count = [@ EXCEPT
                !.requests = @ + Requested(component.hourglass,
                    HourglassComponent_start_flip(component.hourglass))]]
    /\ UNCHANGED <<geometry_vars, mesh, hourglass, before, call,
                   events, history>>

\* a call of hourglass.update(delta)
HourglassUpdate(delta) ==
    /\ component' =
         [component EXCEPT
            !.hourglass = HourglassComponent_update(@, delta),
            !.op = "update",
            !.written = NoWritten]
    /\ UNCHANGED <<geometry_vars, mesh, hourglass, before, call,
                   events, history>>

\* one run of the system update_rotations over the entity, the frame
\* lasting delta_seconds
update_rotations(delta_seconds) ==
    LET h == component.hourglass
        r == component.rotation
        starts == h.flipping /\ ~r.is_flipping
        started == IF starts
                   THEN RotationState_start_flip(r,
                            r.current_rotation + HalfTurn)
                   ELSE r
        updated == RotationState_update_flip(started, delta_seconds)
        flip_complete == started.is_flipping /\ updated.complete
        h_after == IF flip_complete
                   THEN HourglassComponent_complete_flip(h) ELSE h
    IN  /\ component' =
             [component EXCEPT
                !.hourglass = h_after,
                !.rotation = updated.rotation,
                !.transform = IF started.is_flipping
                              THEN updated.rotation.current_rotation ELSE @,
                !.op = "update_rotations",
                !.written =
                    [flip_start |-> IF starts THEN 1 ELSE 0,
                     flip_complete |-> IF flip_complete THEN 1 ELSE 0,
                     is_flipped |-> flip_complete /\ h_after.flipped,
                     interaction |-> <<>>],
                !.count = [@ EXCEPT
                    !.flip_start = @ + (IF starts THEN 1 ELSE 0),
                    !.flip_complete = @ + (IF flip_complete THEN 1 ELSE 0)]]
        /\ UNCHANGED <<geometry_vars, mesh, hourglass, before, call,
                       events, history>>

NextRotation ==
    \/ \E is_hovering \in BOOLEAN, button \in MouseButtons :
         \E angle \in IF Dragged(is_hovering, button)
                       THEN CursorAngles ELSE {0} :
           handle_hourglass_interaction(is_hovering, button, angle)
    \/ StartFlip
    \/ \E delta \in FrameDeltas : HourglassUpdate(delta)
    \/ \E delta \in FrameDeltas : update_rotations(delta)

SpecRotation == InitRotation /\ [][NextRotation]_vars

----------------------------------------------------------------------------
(* Properties of the component-based flip protocol                         *)

\* a flip has been requested and update_rotations has not run since
FlipPending ==
    component.hourglass.flipping /\ ~component.rotation.is_flipping

\* every request but a pending one has its HourglassFlipStartEvent, every
\* started flip but the one in progress its HourglassFlipCompleteEvent, and
\* a flip in progress has not yet lasted flip_duration
EventsMatchRequests ==
    /\ component.count.flip_start + (IF FlipPending THEN 1 ELSE 0)
         = component.count.requests
    /\ component.count.flip_complete
         + (IF component.rotation.is_flipping THEN 1 ELSE 0)
         = component.count.flip_start
    /\ component.rotation.is_flipping =>
         /\ component.hourglass.flipping
         /\ component.rotation.flip_elapsed
              < component.rotation.flip_duration

\* the time the flip has lasted when update_rotations runs
ElapsedOfFlip ==
    IF FlipPending THEN 0 ELSE component.rotation.flip_elapsed

\* a run of update_rotations writes the start event exactly for a pending
\* request and the complete event exactly when the flip has lasted
\* flip_duration; with the complete event flipping is cleared and flipped
\* is toggled once, and without it both keep their values
TickOfRotations(delta) ==
    /\ component'.written.flip_start = (IF FlipPending THEN 1 ELSE 0)
    /\ component'.written.flip_complete =
         (IF /\ component.hourglass.flipping
             /\ ElapsedOfFlip + delta >= component.rotation.flip_duration
          THEN 1 ELSE 0)
    /\ IF component'.written.flip_complete = 1
       THEN /\ ~component'.hourglass.flipping
            /\ component'.hourglass.flipped = ~component.hourglass.flipped
            /\ component'.written.is_flipped = component'.hourglass.flipped
       ELSE component'.hourglass = component.hourglass

\* C26: in the component-based flip protocol every flip request gets
\* exactly one HourglassFlipStartEvent and, when flip_duration has elapsed
\* over the ticks of update_rotations, exactly one
\* HourglassFlipCompleteEvent; at completion flipping is cleared and
\* flipped is toggled exactly once, and nothing else toggles it unless the
\* hourglass follows the mouse; HourglassComponent::update does not
\* decrease remaining_time while flipping is set
C26_FlipProtocol ==
    /\ []EventsMatchRequests
    /\ [][\A delta \in FrameDeltas :
            update_rotations(delta) => TickOfRotations(delta)]_vars
    /\ [][component'.hourglass.flipped # component.hourglass.flipped =>
            \/ component'.written.flip_complete = 1
            \/ component.interactable.mouse_follow]_vars
    /\ [][\A delta \in FrameDeltas :
            HourglassUpdate(delta) /\ component.hourglass.flipping =>
              component'.hourglass.remaining_time
                >= component.hourglass.remaining_time]_vars

\* the second flip requested has just completed, in a run of
\* update_rotations that wrote its HourglassFlipCompleteEvent
C26_Witness ==
    /\ component.op = "update_rotations"
    /\ component.written.flip_complete = 1
    /\ component.count.requests = 2
    /\ component.count.flip_start = 2
    /\ component.count.flip_complete = 2
    /\ ~component.hourglass.flipping

============================================================================
